---- MODULE Spec2Model ----
(***************************************************************************)
(* cosmic-bg: the bounded frame queue (src/src/frame_queue.rs) that        *)
(* decouples the GStreamer decode thread (producer, push) from the Wayland *)
(* render thread (consumer, try_pop / get_render_frame / write_frame_to /  *)
(* last_frame_dimensions).  Each statement that touches an atomic or the   *)
(* mutex-guarded ring is one step, so every interleaving of the two        *)
(* threads and of stop() is explored.                                      *)
(*                                                                         *)
(* The queue is single-producer, single-consumer: push is only called from *)
(* the appsink callback (video_player.rs handle_sample) and the consumer   *)
(* operations only from the render thread (VideoPlayer methods).  The      *)
(* atomics are u64; no counter comes near 2^64 within the bounds, so they  *)
(* are plain integers here and C1 checks that count never goes below 0.    *)
(* Within one run every frame of the stream has the same FrameContent      *)
(* (all Raw of one size, or all DmaBuf); the queue's control flow never    *)
(* looks at the content, only write_frame_to's result depends on it.       *)
(* reset() is compiled for tests only and is not an action here.           *)
(***************************************************************************)
EXTENDS Integers, Sequences, FiniteSets, Bags, TLC

\* ---------------------------------------------------------------- bounds
\* Largest argument given to FrameQueue::new.
MaxCapacity == 3
\* Number of push calls the producer makes.
MaxFrames == 4
\* Cap on the frames_reused counter (get_render_frame on an empty queue).
MaxReuse == 2
\* Length in bytes of the raw frames of a stream.
MaxData == 1

\* ------------------------------------------------------------- constants
\* `capacity.max(2)` in FrameQueue::new.
MinCapacity == 2

None == [none |-> TRUE]
Some(x) == [some |-> x]

Max(a, b) == IF a >= b THEN a ELSE b

VARIABLES
    stream,         \* the FrameContent the decoder delivers for this stream
    requested,      \* the argument n of FrameQueue::new(n)
    capacity,       \* FrameQueue.capacity
    frames,         \* FrameQueue.frames: the ring, slot index 0..capacity-1
    frames_lock,    \* holder of the frames mutex: "free", "producer", "consumer"
    write_pos,      \* FrameQueue.write_pos
    read_pos,       \* FrameQueue.read_pos
    count,          \* FrameQueue.count
    last_frame,     \* FrameQueue.last_frame
    stopped,        \* FrameQueue.stopped
    stats_pushed,   \* FrameQueue.stats_pushed
    stats_dropped,  \* FrameQueue.stats_dropped
    stats_popped,   \* FrameQueue.stats_popped
    stats_reused,   \* FrameQueue.stats_reused
    pc_p,           \* producer thread: position inside push
    p_frame,        \* producer thread: the frame argument of push
    p_count,        \* producer thread: local current_count
    p_result,       \* producer thread: "true" / "false" returned by the last push
    next_pts,       \* pts_ns of the next frame the decoder delivers
    pc_c,           \* consumer thread: position inside its operation
    c_op,           \* consumer thread: the operation called
    c_dest,         \* consumer thread: dest.len() of write_frame_to
    c_frame,        \* consumer thread: local frame
    c_result,       \* consumer thread: value returned by the last operation
    c_entry,        \* queue fields as they were when the consumer's call began
    hist,           \* history: frames stored, dropped, refused and popped, in order
    pipeline_state, \* VideoPlayer.pipeline: "Playing", "Stopping" (set_state(Null)
                    \* called, not yet returned) or "Null"
    callback,       \* streaming thread: "sample" inside handle_sample, else "none"
    gst_init_ok,    \* VideoPlayer::new: gstreamer::init() succeeds
    path_str,       \* VideoPlayer::new: path.to_str(), None for a non-UTF-8 path
    has_vaapi,      \* VideoPlayer::new: ElementFactory::find("vaapipostproc")
    has_nvdec,      \* VideoPlayer::new: ElementFactory::find("nvh264dec")
    has_cuda_dmabuf, \* VideoPlayer::new: ElementFactory::find("cudadmabufupload")
    test_outcome,   \* what GStreamer does with each candidate graph when tested
    new_pc,         \* VideoPlayer::new: the statement it is at
    constructed,    \* candidate graphs built with format!, in order
    tested,         \* candidate graphs handed to test_pipeline, in order
    pipeline_str,   \* VideoPlayer::new: pipeline_str, None until selected
    launched,       \* outcome of the final parse::launch and appsink lookup
    new_result,     \* what VideoPlayer::new returned: "none", "Ok", "Err"
    source,         \* AnimatedPlayer.source: "Avif" or "Video"
    frame_count,    \* frames.len() of PlayerSource::Avif
    current_index,  \* AnimatedPlayer.current_index
    bus,            \* messages waiting on the pipeline's bus, oldest first
    dmabuf_global,  \* the compositor offers zwp_linux_dmabuf_v1
    layers,         \* Wallpaper.layers: needs_redraw, pool, size and scale
    attached,       \* per layer, the buffers attached and committed this tick
    tick_pc,        \* frame timer callback: the statement it is at
    ticks,          \* number of advance() calls made on an image sequence
    advance_result, \* what the last advance() returned
    tick_seek,      \* what this tick's advance() did on Eos: "none", "ok", "failed"
    dmabuf_rendered, \* frame timer callback: local dmabuf_rendered
    arcs,           \* every Arc<OwnedFd> made so far: its descriptor and strong count
    closes,         \* the bag of descriptors closed by the drop of an OwnedFd
    ring,           \* the queued frames, oldest first (FrameQueue.frames in order)
    cache,          \* FrameQueue.last_frame, as the descriptor-holding frame
    render_frame,   \* the frame get_render_frame handed to the call in progress
    render_op,      \* the delivery call in progress, "none" between calls
    render_dest,    \* dest.len() of the write_frame_to in progress
    buffers,        \* the Arcs held by the DmaBufBuffers that are alive
    samples,        \* samples the decoder has delivered
    delivered,      \* the delivery call that has just returned: frame, dest, result
    use_after_close, \* a descriptor was duplicated after it had been closed
    video,          \* create_dmabuf_frame: width, height and is_nv12 of the sample
    video_meta,     \* create_dmabuf_frame: strides and offsets of the buffer's VideoMeta
    dmabuf_result,  \* create_dmabuf_frame: dmabuf_result, None before the call
    conv_source,    \* convert.rs: the source path: its extension and whether the file exists
    conv_env,       \* convert.rs: the machine: NVIDIA GPU, ffprobe's answer, the data directory
    cache_file,     \* convert.rs: the file at get_cached_path(source): missing, empty or data
    calls,          \* convert.rs: the calls made so far, each with what it ran and returned
    avif_file,      \* detection.rs: the file is_animated_avif is asked about
    avif_result,    \* detection.rs: what is_animated_avif returned
    det_registry,   \* detection.rs: element factories the GStreamer registry has
    det_machine,    \* detection.rs: whether gstreamer::init succeeds and CUDA works
    CODEC_SUPPORT,  \* detection.rs: the OnceLock: its state and its value
    DEMOTED,        \* detection.rs: the Once of demote_broken_nvidia_decoders
    detections,     \* detection.rs: runs of detect_codec_support
    demotions,      \* detection.rs: runs of the call_once body
    demoted,        \* detection.rs: factories whose rank was set to NONE
    th_pc,          \* detection.rs: where each thread is
    th_seen,        \* detection.rs: the snapshot each thread's last get_codec_support returned
    th_calls,       \* detection.rs: calls each thread has made
    graphs,         \* video_player.rs: the decode graphs that exist during VideoPlayer::new, each with its state
    graph_pc,       \* video_player.rs: where test_pipeline is
    released,       \* video_player.rs: the test graphs dropped so far, each with the state it was left in
    cb_sample,      \* video_player.rs: the sample the appsink handed to handle_sample
    cb_pc,          \* video_player.rs: where handle_sample is
    cb_entry,       \* video_player.rs: what the producer had done when the callback began
    flow,           \* video_player.rs: what handle_sample returned
    state_lock,     \* video_player.rs: holder of the VideoFrameState mutex
    state_frames,   \* video_player.rs: VideoFrameState.frame_count
    dur_pc,         \* video_player.rs: where the render loop's frame_duration call is
    taken,          \* wallpaper.rs: pts of the frames try_pop removed from the queue within the current frame-timer tick
    entry_source,   \* wallpaper.rs: Wallpaper.entry.source, a file or a directory of files
    image_queue,    \* wallpaper.rs: Wallpaper.image_queue
    current_source, \* wallpaper.rs: Wallpaper.current_source
    animation_state, \* wallpaper.rs: Wallpaper.animation_state
    loop_timers,    \* wallpaper.rs: tokens of the frame timers registered in the event loop
    tokens_made,    \* wallpaper.rs: number of frame timers inserted so far
    anim_failed,    \* wallpaper.rs: the path of the last init_animation call, when it returned false
    draw_outcome    \* wallpaper.rs: what the last step, when it was draw(), did for the layer

vars == <<stream, requested, capacity, frames, frames_lock, write_pos,
          read_pos, count, last_frame, stopped, stats_pushed, stats_dropped, stats_popped,
          stats_reused, pc_p, p_frame, p_count, p_result, next_pts, pc_c, c_op,
          c_dest, c_frame, c_result, c_entry, hist, pipeline_state, callback,
          gst_init_ok, path_str, has_vaapi, has_nvdec, has_cuda_dmabuf,
          test_outcome, new_pc, constructed, tested, pipeline_str, launched,
          new_result, source, frame_count, current_index, bus,
          dmabuf_global, layers, attached, tick_pc, ticks, advance_result,
          tick_seek, dmabuf_rendered, arcs, closes, ring, cache, render_frame,
          render_op, render_dest, buffers, samples, delivered, use_after_close,
          video, video_meta, dmabuf_result,
          conv_source, conv_env, cache_file, calls,
          avif_file, avif_result,
          det_registry, det_machine, CODEC_SUPPORT, DEMOTED, detections, demotions, demoted, th_pc, th_seen, th_calls,
          graphs, graph_pc, released,
          cb_sample, cb_pc, cb_entry, flow, state_lock, state_frames, dur_pc,
          taken,
          entry_source, image_queue, current_source, animation_state, loop_timers, tokens_made, anim_failed, draw_outcome>>

\* The variables no FrameQueue operation writes: the arguments of the run and
\* the state of the player that owns the queue.
playerVars == <<pipeline_state, callback>>
\* VideoPlayer::new: its environment and its locals.
newEnvVars == <<gst_init_ok, path_str, has_vaapi, has_nvdec, has_cuda_dmabuf,
                test_outcome>>
newVars == <<newEnvVars, new_pc, constructed, tested, pipeline_str, launched,
             new_result>>
\* AnimatedPlayer, the layer surfaces and the frame timer callback.
timerVars == <<source, frame_count, current_index, bus,
               dmabuf_global, layers, attached, tick_pc, ticks, advance_result,
               tick_seek, dmabuf_rendered>>
\* The descriptors of DMA-BUF frames and the two delivery calls.
fdVars == <<arcs, closes, ring, cache, render_frame, render_op, render_dest,
            buffers, samples, delivered, use_after_close>>
\* The sample handed to create_dmabuf_frame and the frame data made of it.
planeVars == <<video, video_meta, dmabuf_result>>
\* The video a wallpaper names, the machine, the conversion cache and the calls made.
convertVars == <<conv_source, conv_env, cache_file, calls>>
\* The file given to is_animated_avif and the answer.
avifVars == <<avif_file, avif_result>>
\* The capability cell, the demotion guard and the threads calling them.
onceVars == <<det_registry, det_machine, CODEC_SUPPORT, DEMOTED, detections, demotions, demoted, th_pc, th_seen, th_calls>>
\* The decode graphs alive during VideoPlayer::new and the ones released.
graphVars == <<graphs, graph_pc, released>>
\* The sink callback, the VideoFrameState mutex and the render loop's duration query.
sampleVars == <<cb_sample, cb_pc, cb_entry, flow, state_lock, state_frames, dur_pc>>
\* What the current frame-timer tick removed from the queue.
tickVars == <<taken>>
\* One Wallpaper, its frame timers in the event loop and its static draw.
wallVars == <<entry_source, image_queue, current_source, animation_state, loop_timers, tokens_made, anim_failed, draw_outcome>>
\* The inputs and results of the functions checked on their own.
pureVars == <<planeVars, convertVars, avifVars, onceVars, graphVars, sampleVars, tickVars, wallVars>>
fixedVars == <<stream, requested, capacity, playerVars, newVars, timerVars,
               fdVars, pureVars>>
queueVars == <<fixedVars, frames, frames_lock, write_pos, read_pos,
               count, last_frame, stopped, stats_pushed, stats_dropped,
               stats_popped, stats_reused>>
producerVars == <<pc_p, p_frame, p_count, p_result, next_pts>>
consumerVars == <<pc_c, c_op, c_dest, c_frame, c_result, c_entry>>

\* ------------------------------------------------------------ QueuedFrame
\* FrameContent: Raw(Vec<u8>) of the stream's frame size, or DmaBuf.
Contents == {[kind |-> "Raw", len |-> MaxData], [kind |-> "DmaBuf", len |-> 0]}

\* dest.len() given to write_frame_to: one byte short of a frame, and a fit.
DestLens == {MaxData - 1, MaxData}

\* QueuedFrame::new / new_dmabuf; the decoder stamps frames with rising pts.
QueuedFrame(content, pts) ==
    [content |-> content, width |-> 1, height |-> 1, pts_ns |-> pts]

\* QueuedFrame::write_to: bytes written into a destination of destLen bytes.
write_to(frame, destLen) ==
    IF frame.content.kind = "Raw"
    THEN IF destLen < frame.content.len THEN 0 ELSE frame.content.len
    ELSE 0

\* --------------------------------------------------------------- history
Event(ev, frame) == [ev |-> ev, pts |-> frame.pts_ns]
Log(ev, frame) == hist' = Append(hist, Event(ev, frame))

\* ------------------------------------------------------- FrameQueue::new
new(n) ==
    /\ requested = n
    /\ capacity = Max(n, MinCapacity)
    /\ frames = [i \in 0..(Max(n, MinCapacity) - 1) |-> None]
    /\ frames_lock = "free"
    /\ write_pos = 0
    /\ read_pos = 0
    /\ count = 0
    /\ last_frame = None
    /\ stopped = FALSE
    /\ stats_pushed = 0
    /\ stats_dropped = 0
    /\ stats_popped = 0
    /\ stats_reused = 0

\* The player that owns the queue has been built: VideoPlayer::new returned
\* Ok with the software-decode graph, no hardware decoder being present.
Constructed ==
    /\ gst_init_ok = TRUE
    /\ path_str = Some("path")
    /\ has_vaapi = FALSE
    /\ has_nvdec = FALSE
    /\ has_cuda_dmabuf = FALSE
    /\ test_outcome = <<>>
    /\ new_pc = "done"
    /\ constructed = <<>>
    /\ tested = <<>>
    /\ pipeline_str = Some("software")
    /\ launched = "ok"
    /\ new_result = "Ok"

\* No frame timer is registered: the queue is exercised on its own.
NoTimer ==
    /\ source = "Video"
    /\ frame_count = 0
    /\ current_index = 0
    /\ bus = <<>>
    /\ dmabuf_global = FALSE
    /\ layers = <<>>
    /\ attached = <<>>
    /\ tick_pc = "unregistered"
    /\ ticks = 0
    /\ advance_result = "none"
    /\ tick_seek = "none"
    /\ dmabuf_rendered = FALSE

\* No frame carries a descriptor and no delivery call has been made.
NoDelivery ==
    /\ arcs = <<>>
    /\ closes = <<>>
    /\ ring = <<>>
    /\ cache = None
    /\ render_frame = None
    /\ render_op = "none"
    /\ render_dest = 0
    /\ buffers = {}
    /\ samples = 0
    /\ delivered = None
    /\ use_after_close = FALSE

\* No DMA-BUF frame data is being built.
NoPlanes ==
    /\ video = None
    /\ video_meta = None
    /\ dmabuf_result = None

\* No video is being considered for conversion.
NoConversion ==
    /\ conv_source = None
    /\ conv_env = None
    /\ cache_file = "missing"
    /\ calls = <<>>

\* No file is being classified.
NoAvifFile ==
    /\ avif_file = None
    /\ avif_result = None

\* No thread asks for codec support.
NoDetection ==
    /\ det_registry = {}
    /\ det_machine = None
    /\ CODEC_SUPPORT = None
    /\ DEMOTED = "incomplete"
    /\ detections = 0
    /\ demotions = 0
    /\ demoted = {}
    /\ th_pc = <<>>
    /\ th_seen = <<>>
    /\ th_calls = <<>>

\* No decode graph is followed.
NoGraphs ==
    /\ graphs = <<>>
    /\ graph_pc = "idle"
    /\ released = <<>>

\* No sample is followed through the sink callback.
NoCallback ==
    /\ cb_sample = None
    /\ cb_pc = "idle"
    /\ cb_entry = None
    /\ flow = None
    /\ state_lock = "free"
    /\ state_frames = 0
    /\ dur_pc = "idle"

\* No tick has removed a frame.
NoTake ==
    /\ taken = <<>>

\* No Wallpaper is followed.
NoWallpaper ==
    /\ entry_source = None
    /\ image_queue = <<>>
    /\ current_source = None
    /\ animation_state = None
    /\ loop_timers = {}
    /\ tokens_made = 0
    /\ anim_failed = None
    /\ draw_outcome = None

\* Arguments given to FrameQueue::new: one below the minimum (clamped up to
\* MinCapacity) and the largest one.
NewArgs == {MinCapacity - 1, MaxCapacity}

Init ==
    /\ NoWallpaper
    /\ NoTake
    /\ NoCallback
    /\ NoGraphs
    /\ NoDetection
    /\ NoAvifFile
    /\ NoConversion
    /\ NoPlanes
    /\ \E n \in NewArgs : new(n)
    /\ stream \in Contents
    /\ pc_p = "idle"
    /\ p_frame = None
    /\ p_count = 0
    /\ p_result = "none"
    /\ next_pts = 1
    /\ pc_c = "idle"
    /\ c_op = "none"
    /\ c_dest = 0
    /\ c_frame = None
    /\ c_result = None
    /\ c_entry = None
    /\ hist = <<>>
    /\ pipeline_state = "Playing"
    /\ callback = "none"
    /\ Constructed
    /\ NoTimer
    /\ NoDelivery

\* ------------------------------------------------------ FrameQueue::push
\* Mutant of IsFull: an off-by-one comparison, `>` for `>=`.
IsFull_OffByOne(current_count) == current_count > capacity

\* `current_count >= self.capacity as u64`
IsFull(current_count) == current_count >= capacity

\* Mutant of drop_idx: the newest slot is emptied instead of the oldest.
drop_idx_Newest == (write_pos + capacity - 1) % capacity

\* `(old_read % self.capacity as u64) as usize`: the slot push empties.
drop_idx == read_pos % capacity

\* Mutant of write_idx: push stores into the slot at the read position.
write_idx_AtRead == read_pos % capacity

\* `(self.write_pos.load() % self.capacity as u64) as usize`
write_idx == write_pos % capacity

\* Mutant of read_idx: try_pop reads the slot after the oldest one.
read_idx_Next == (read_pos + 1) % capacity

\* `(self.read_pos.load() % self.capacity as u64) as usize`
read_idx == read_pos % capacity

\* Mutant of is_stopped: push never looks at the stopped flag.
is_stopped_Ignored == FALSE

\* `self.stopped.load(Ordering::Acquire)`
is_stopped == stopped

\* `self.frames.try_lock()` seen from thread `who`.
TryLockOk(who) == frames_lock = "free"

\* Mutant of ContentionResult: contention is reported like a stopped queue.
ContentionResult_False == "false"

\* The value push returns when try_lock fails ("Not stopped, just contention").
ContentionResult == "true"

\* The value push returns when the stopped flag is set.
StoppedResult == "false"

\* push entry: `if self.stopped.load() { return false; }`
push_Stopped ==
    /\ pc_p = "idle"
    /\ next_pts <= MaxFrames
    /\ LET frame == QueuedFrame(stream, next_pts) IN
         IF is_stopped
         THEN /\ p_result' = StoppedResult
              /\ Log("refused", frame)
              /\ UNCHANGED <<pc_p, p_frame>>
         ELSE /\ p_frame' = frame
              /\ pc_p' = "push_try_lock"
              /\ p_result' = "none"
              /\ UNCHANGED hist
    /\ next_pts' = next_pts + 1
    /\ UNCHANGED <<queueVars, consumerVars, p_count>>

\* Mutant of push_Contended: the discarded frame is not counted as a drop.
push_Contended_Uncounted ==
    /\ p_result' = ContentionResult
    /\ p_frame' = None
    /\ pc_p' = "idle"
    /\ Log("contended", p_frame)
    /\ UNCHANGED <<frames_lock, stats_dropped>>

\* push, `Err(_) => { self.stats_dropped.fetch_add(1); return true; }`:
\* the frame is dropped and push returns at once.
push_Contended ==
    /\ stats_dropped' = stats_dropped + 1
    /\ p_result' = ContentionResult
    /\ p_frame' = None
    /\ pc_p' = "idle"
    /\ Log("contended", p_frame)
    /\ UNCHANGED frames_lock

\* `match self.frames.try_lock() { Ok(guard) => guard, Err(_) => .. }`
push_TryLock ==
    /\ pc_p = "push_try_lock"
    /\ IF TryLockOk("producer")
       THEN /\ frames_lock' = "producer"
            /\ pc_p' = "push_load_count"
            /\ UNCHANGED <<stats_dropped, p_result, p_frame, hist>>
       ELSE push_Contended
    /\ UNCHANGED <<fixedVars, frames, write_pos, read_pos, count,
                   last_frame, stopped, stats_pushed, stats_popped,
                   stats_reused, p_count, next_pts, consumerVars>>

\* `let current_count = self.count.load(); if current_count >= capacity`
push_LoadCount ==
    /\ pc_p = "push_load_count"
    /\ p_count' = count
    /\ pc_p' = IF IsFull(count) THEN "push_drop_slot" ELSE "push_write_slot"
    /\ UNCHANGED <<queueVars, consumerVars, p_frame, p_result, next_pts, hist>>

\* `let old_read = read_pos.fetch_add(1); frames[old_read % capacity] = None;`
push_DropSlot ==
    /\ pc_p = "push_drop_slot"
    /\ frames' = [frames EXCEPT ![drop_idx] = None]
    /\ IF frames[drop_idx] # None
       THEN Log("dropped", frames[drop_idx])
       ELSE UNCHANGED hist
    /\ read_pos' = read_pos + 1
    /\ pc_p' = "push_drop_count"
    /\ UNCHANGED <<fixedVars, frames_lock, write_pos, count,
                   last_frame, stopped, stats_pushed, stats_dropped,
                   stats_popped, stats_reused, p_frame, p_count, p_result,
                   next_pts, consumerVars>>

\* `self.count.fetch_sub(1)`
push_DropCount ==
    /\ pc_p = "push_drop_count"
    /\ count' = count - 1
    /\ pc_p' = "push_drop_stat"
    /\ UNCHANGED <<fixedVars, frames, frames_lock, write_pos,
                   read_pos, last_frame, stopped, stats_pushed, stats_dropped,
                   stats_popped, stats_reused, p_frame, p_count, p_result,
                   next_pts, consumerVars, hist>>

\* `self.stats_dropped.fetch_add(1)`
push_DropStat ==
    /\ pc_p = "push_drop_stat"
    /\ stats_dropped' = stats_dropped + 1
    /\ pc_p' = "push_write_slot"
    /\ UNCHANGED <<fixedVars, frames, frames_lock, write_pos,
                   read_pos, count, last_frame, stopped, stats_pushed,
                   stats_popped, stats_reused, p_frame, p_count, p_result,
                   next_pts, consumerVars, hist>>

\* `frames[write_pos % capacity] = Some(frame); write_pos.fetch_add(1)`
push_WriteSlot ==
    /\ pc_p = "push_write_slot"
    /\ frames' = [frames EXCEPT ![write_idx] = p_frame]
    /\ write_pos' = write_pos + 1
    /\ Log("stored", p_frame)
    /\ pc_p' = "push_count"
    /\ UNCHANGED <<fixedVars, frames_lock, read_pos, count,
                   last_frame, stopped, stats_pushed, stats_dropped,
                   stats_popped, stats_reused, p_frame, p_count, p_result,
                   next_pts, consumerVars>>

\* `self.count.fetch_add(1)`
push_Count ==
    /\ pc_p = "push_count"
    /\ count' = count + 1
    /\ pc_p' = "push_stat"
    /\ UNCHANGED <<fixedVars, frames, frames_lock, write_pos,
                   read_pos, last_frame, stopped, stats_pushed, stats_dropped,
                   stats_popped, stats_reused, p_frame, p_count, p_result,
                   next_pts, consumerVars, hist>>

\* `self.stats_pushed.fetch_add(1); true` and the guard is released.
push_Return ==
    /\ pc_p = "push_stat"
    /\ stats_pushed' = stats_pushed + 1
    /\ frames_lock' = "free"
    /\ p_result' = "true"
    /\ p_frame' = None
    /\ p_count' = 0
    /\ pc_p' = "idle"
    /\ UNCHANGED <<fixedVars, frames, write_pos, read_pos, count,
                   last_frame, stopped, stats_dropped, stats_popped,
                   stats_reused, next_pts, consumerVars, hist>>

\* ------------------------------------------------------ FrameQueue::stop
stop ==
    /\ ~stopped
    /\ stopped' = TRUE
    /\ UNCHANGED <<fixedVars, frames, frames_lock, write_pos,
                   read_pos, count, last_frame, stats_pushed, stats_dropped,
                   stats_popped, stats_reused, producerVars, consumerVars, hist>>

Producer ==
    \/ push_Stopped
    \/ push_TryLock
    \/ push_LoadCount
    \/ push_DropSlot
    \/ push_DropCount
    \/ push_DropStat
    \/ push_WriteSlot
    \/ push_Count
    \/ push_Return

\* --------------------------------------------------- consumer operations
ConsumerOps == {"try_pop", "get_render_frame", "write_frame_to",
                "last_frame_dimensions"}

\* Option<(u32, u32)> of write_frame_to and last_frame_dimensions.
Dimensions(frame) == [width |-> frame.width, height |-> frame.height]

\* write_frame_to: `let frame = self.get_render_frame()?;
\*   if frame.write_to(dest) > 0 { Some((w, h)) } else { None }`
write_frame_to_Result(frame, destLen) ==
    IF frame = None THEN None
    ELSE IF write_to(frame, destLen) > 0 THEN Dimensions(frame) ELSE None

\* get_render_frame has its frame: return it, or hand it to write_frame_to.
get_render_frame_Return(frame) ==
    /\ pc_c' = "idle"
    /\ c_frame' = None
    /\ c_result' = IF c_op = "write_frame_to"
                   THEN write_frame_to_Result(frame, c_dest)
                   ELSE frame

\* try_pop returns `frame` to its caller: the consumer itself, or
\* get_render_frame (`if let Some(frame) = self.try_pop() { return Some(frame) }`).
try_pop_Return(frame) ==
    IF c_op = "try_pop"
    THEN /\ pc_c' = "idle"
         /\ c_frame' = None
         /\ c_result' = frame
    ELSE IF frame # None
         THEN get_render_frame_Return(frame)
         ELSE /\ pc_c' = "grf_reuse"
              /\ c_frame' = None
              /\ UNCHANGED c_result

\* The fields of the queue as a caller can read them when its call begins.
Snapshot ==
    [count |-> count, pushed |-> stats_pushed, popped |-> stats_popped,
     reused |-> stats_reused, last_frame |-> last_frame]

\* The render thread calls one of the consumer operations.
Call ==
    /\ pc_c = "idle"
    /\ stats_reused < MaxReuse
    /\ \E op \in ConsumerOps, d \in DestLens :
         /\ c_op' = op
         /\ c_dest' = IF op = "write_frame_to" THEN d ELSE 0
         /\ pc_c' = IF op = "last_frame_dimensions" THEN "lfd" ELSE "pop_check"
    /\ c_entry' = Snapshot
    /\ c_result' = None
    /\ UNCHANGED <<queueVars, producerVars, c_frame, hist>>

\* try_pop: `if self.count.load() == 0 { return None; }`
try_pop_Check ==
    /\ pc_c = "pop_check"
    /\ IF count = 0
       THEN try_pop_Return(None)
       ELSE /\ pc_c' = "pop_try_lock"
            /\ UNCHANGED <<c_frame, c_result>>
    /\ UNCHANGED <<queueVars, producerVars, c_op, c_dest, c_entry, hist>>

\* Mutant of try_pop_Contended: `lock()` for `try_lock()`, the render
\* thread waits until the producer releases the ring.
try_pop_Contended_Blocks == FALSE

\* try_pop, `Err(_) => return None`: lock contention, don't block.
try_pop_Contended ==
    /\ try_pop_Return(None)
    /\ UNCHANGED frames_lock

\* try_pop: `match self.frames.try_lock() { Ok(guard) => guard, Err(_) => .. }`
try_pop_TryLock ==
    /\ pc_c = "pop_try_lock"
    /\ IF TryLockOk("consumer")
       THEN /\ frames_lock' = "consumer"
            /\ pc_c' = "pop_recheck"
            /\ UNCHANGED <<c_frame, c_result>>
       ELSE try_pop_Contended
    /\ UNCHANGED <<fixedVars, frames, write_pos, read_pos, count,
                   last_frame, stopped, stats_pushed, stats_dropped,
                   stats_popped, stats_reused, producerVars, c_op, c_dest,
                   c_entry, hist>>

\* try_pop: the double-check of count under the lock.
try_pop_Recheck ==
    /\ pc_c = "pop_recheck"
    /\ IF count = 0
       THEN /\ try_pop_Return(None)
            /\ frames_lock' = "free"
       ELSE /\ pc_c' = "pop_take"
            /\ UNCHANGED <<c_frame, c_result, frames_lock>>
    /\ UNCHANGED <<fixedVars, frames, write_pos, read_pos, count,
                   last_frame, stopped, stats_pushed, stats_dropped,
                   stats_popped, stats_reused, producerVars, c_op, c_dest,
                   c_entry, hist>>

\* try_pop: `let frame = frames[read_pos % capacity].take();` and, when the
\* slot was empty, `frame` (None) is returned and the guard released.
try_pop_Take ==
    /\ pc_c = "pop_take"
    /\ LET frame == frames[read_idx] IN
         /\ frames' = [frames EXCEPT ![read_idx] = None]
         /\ IF frame # None
            THEN /\ c_frame' = frame
                 /\ pc_c' = "pop_read_pos"
                 /\ UNCHANGED <<c_result, frames_lock>>
            ELSE /\ try_pop_Return(None)
                 /\ frames_lock' = "free"
    /\ UNCHANGED <<fixedVars, write_pos, read_pos, count,
                   last_frame, stopped, stats_pushed, stats_dropped,
                   stats_popped, stats_reused, producerVars, c_op, c_dest,
                   c_entry, hist>>

\* try_pop: `self.read_pos.fetch_add(1)`
try_pop_ReadPos ==
    /\ pc_c = "pop_read_pos"
    /\ read_pos' = read_pos + 1
    /\ pc_c' = "pop_count"
    /\ UNCHANGED <<fixedVars, frames, frames_lock, write_pos, count,
                   last_frame, stopped, stats_pushed, stats_dropped,
                   stats_popped, stats_reused, producerVars, c_op, c_dest,
                   c_frame, c_result, c_entry, hist>>

\* try_pop: `self.count.fetch_sub(1)`
try_pop_Count ==
    /\ pc_c = "pop_count"
    /\ count' = count - 1
    /\ pc_c' = "pop_stat"
    /\ UNCHANGED <<fixedVars, frames, frames_lock, write_pos,
                   read_pos, last_frame, stopped, stats_pushed, stats_dropped,
                   stats_popped, stats_reused, producerVars, c_op, c_dest,
                   c_frame, c_result, c_entry, hist>>

\* try_pop: `self.stats_popped.fetch_add(1)`
try_pop_Stat ==
    /\ pc_c = "pop_stat"
    /\ stats_popped' = stats_popped + 1
    /\ pc_c' = "pop_cache"
    /\ UNCHANGED <<fixedVars, frames, frames_lock, write_pos,
                   read_pos, count, last_frame, stopped, stats_pushed,
                   stats_dropped, stats_reused, producerVars, c_op, c_dest,
                   c_frame, c_result, c_entry, hist>>

\* Mutant of cached: the cache keeps the frame it had.
cached_Stale == last_frame

\* `frame.clone()`, the value try_pop stores in the last-frame cache.
cached == c_frame

\* try_pop: `if let Ok(mut last) = self.last_frame.try_lock() { *last =
\* frame.clone(); }`.  Only the render thread ever takes the last_frame
\* mutex, and it never holds it across a call, so this try_lock succeeds.
try_pop_Cache ==
    /\ pc_c = "pop_cache"
    /\ last_frame' = cached
    /\ pc_c' = "pop_return"
    /\ UNCHANGED <<fixedVars, frames, frames_lock, write_pos,
                   read_pos, count, stopped, stats_pushed, stats_dropped,
                   stats_popped, stats_reused, producerVars, c_op, c_dest,
                   c_frame, c_result, c_entry, hist>>

\* try_pop: `frame` (Some) is returned and the guard released.
try_pop_Some ==
    /\ pc_c = "pop_return"
    /\ frames_lock' = "free"
    /\ Log("popped", c_frame)
    /\ try_pop_Return(c_frame)
    /\ UNCHANGED <<fixedVars, frames, write_pos, read_pos, count,
                   last_frame, stopped, stats_pushed, stats_dropped,
                   stats_popped, stats_reused, producerVars, c_op, c_dest,
                   c_entry>>

\* get_render_frame: `self.stats_reused.fetch_add(1)`
get_render_frame_Reuse ==
    /\ pc_c = "grf_reuse"
    /\ stats_reused' = stats_reused + 1
    /\ pc_c' = "grf_last"
    /\ UNCHANGED <<fixedVars, frames, frames_lock, write_pos,
                   read_pos, count, last_frame, stopped, stats_pushed,
                   stats_dropped, stats_popped, producerVars, c_op, c_dest,
                   c_frame, c_result, c_entry, hist>>

\* Mutant of reused: the fallback forgets the cached frame.
reused_Nothing == None

\* `last.clone()`, the value get_render_frame falls back to.
reused == last_frame

\* get_render_frame: `if let Ok(last) = self.last_frame.try_lock() {
\* last.clone() } else { None }` (the try_lock succeeds, see try_pop_Cache).
get_render_frame_Last ==
    /\ pc_c = "grf_last"
    /\ get_render_frame_Return(reused)
    /\ UNCHANGED <<queueVars, producerVars, c_op, c_dest, c_entry, hist>>

\* last_frame_dimensions: `self.last_frame.try_lock().ok()?.as_ref().map(..)`
last_frame_dimensions ==
    /\ pc_c = "lfd"
    /\ c_result' = IF last_frame = None THEN None ELSE Dimensions(last_frame)
    /\ pc_c' = "idle"
    /\ UNCHANGED <<queueVars, producerVars, c_op, c_dest, c_frame, c_entry,
                   hist>>

Consumer ==
    \/ Call
    \/ try_pop_Check
    \/ try_pop_TryLock
    \/ try_pop_Recheck
    \/ try_pop_Take
    \/ try_pop_ReadPos
    \/ try_pop_Count
    \/ try_pop_Stat
    \/ try_pop_Cache
    \/ try_pop_Some
    \/ get_render_frame_Reuse
    \/ get_render_frame_Last
    \/ last_frame_dimensions

Next ==
    \/ Producer
    \/ Consumer
    \/ stop

Spec == Init /\ [][Next]_vars

\* ================================================================ claims
\* Readings of the history.
EventsOf(ev) == {i \in 1..Len(hist) : hist[i].ev = ev}
PtsOf(ev) == {hist[i].pts : i \in EventsOf(ev)}

\* pts of the frames that have been returned by try_pop, in return order.
Popped ==
    LET pops == SelectSeq(hist, LAMBDA e : e.ev = "popped")
    IN  [i \in 1..Len(pops) |-> pops[i].pts]

\* The frames the queue holds after the first n events: stored frames join
\* at the back, dropped and popped frames leave.
RECURSIVE Held(_)
Held(n) ==
    IF n = 0 THEN <<>>
    ELSE LET q == Held(n - 1)
             e == hist[n]
         IN  IF e.ev = "stored" THEN Append(q, e.pts)
             ELSE IF e.ev \in {"dropped", "popped"}
                  THEN SelectSeq(q, LAMBDA x : x # e.pts)
                  ELSE q

\* pts of the frames in the ring's occupied slots.
Resident == {frames[i].pts_ns : i \in {j \in DOMAIN frames : frames[j] # None}}

\* len()
len == count

Quiescent == frames_lock = "free"

\* C1: in every reachable state, under every interleaving of push, the
\* consumer operations and stop, 0 <= len() <= capacity, and capacity is
\* the argument of FrameQueue::new raised to at least 2.
C1_QueueBound ==
    /\ 0 <= len
    /\ len <= capacity
    /\ (requested >= 2 => capacity = requested)
    /\ (requested < 2 => capacity = 2)

\* C1 witness: a clamped queue is full again after a push that had to drop
\* a frame, while the consumer is inside an operation.
C1_Witness ==
    /\ requested < 2
    /\ len = capacity
    /\ EventsOf("dropped") # {}
    /\ pc_p = "push_stat"
    /\ pc_c = "pop_try_lock"

\* C2: a push that gets the ring lock on a queue holding capacity frames
\* f1..fk discards f1 (the oldest), is followed by the store of its own
\* frame, leaves len() at k, and the pops that follow before any other
\* store return f2, ..., f(k+1) in that order; f1 is never returned.
C2_DropOldest ==
    /\ Quiescent => len = Len(Held(Len(hist)))
    /\ \A j \in EventsOf("dropped") :
         LET q == Held(j - 1) IN
         /\ Len(q) = capacity
         /\ hist[j].pts = Head(q)
         /\ hist[j].pts \notin PtsOf("popped")
         /\ j < Len(hist) =>
              /\ hist[j + 1].ev = "stored"
              /\ Len(Held(j + 1)) = capacity
              /\ \A m \in (j + 2)..Len(hist) :
                   (\A x \in (j + 2)..m : hist[x].ev = "popped") =>
                     /\ m - j - 1 <= capacity
                     /\ hist[m].pts = Append(Tail(q), hist[j + 1].pts)[m - j - 1]

\* C2 witness: a drop, the store of the new frame, then capacity pops, on
\* the default capacity of 3.
C2_Witness ==
    /\ capacity = 3
    /\ \E j \in EventsOf("dropped") :
         /\ Len(hist) = j + 1 + capacity
         /\ \A x \in (j + 2)..Len(hist) : hist[x].ev = "popped"

\* C3: try_pop returns frames in the order they were pushed, none twice;
\* every frame a push accepted is popped, dropped as the oldest of the
\* queue, dropped on contention, or still resident (or still being pushed).
C3_FifoOrder ==
    LET popped == PtsOf("popped")
        dropped == PtsOf("dropped")
        stored == PtsOf("stored")
        contended == PtsOf("contended")
        order == Popped
    IN
    /\ \A i \in 1..(Len(order) - 1) : order[i] < order[i + 1]
    /\ \A j \in EventsOf("popped") \cup EventsOf("dropped") :
         LET q == Held(j - 1) IN q # <<>> /\ hist[j].pts = Head(q)
    /\ popped \cap dropped = {}
    /\ (popped \cup dropped) \subseteq stored
    /\ stored \cap contended = {}
    /\ Quiescent =>
         /\ Resident \cap (popped \cup dropped) = {}
         /\ stored = popped \cup dropped \cup Resident
         /\ 1..(next_pts - 1) = stored \cup contended \cup PtsOf("refused")
                                  \cup (IF p_frame = None THEN {}
                                        ELSE {p_frame.pts_ns})

\* C3 witness: frames were popped although one frame was dropped as the
\* oldest and another on contention.
C3_Witness ==
    /\ Len(Popped) >= 2
    /\ EventsOf("dropped") # {}
    /\ EventsOf("contended") # {}
    /\ Quiescent

\* pts of the frame given to the most recent push call.
LastPts == next_pts - 1

\* The fields of the queue a push must leave alone when it adds nothing.
ringVars == <<frames, count, read_pos, write_pos>>
statVars == <<stats_pushed, stats_dropped, stats_popped, stats_reused>>

\* C4: once stop() has been called the flag stays set, and every push
\* called after it returns false at once and changes nothing: len(), the
\* ring, the positions and the four counters are as before the call.
C4_StoppedPush ==
    [][ /\ stopped => stopped'
        /\ (stopped /\ next_pts' # next_pts) =>
             /\ p_result' = "false"
             /\ pc_p' = "idle"
             /\ UNCHANGED <<ringVars, statVars, frames_lock, last_frame>> ]_vars

\* C4 witness: a push was refused by a stopped queue that holds frames.
C4_Witness ==
    /\ stopped
    /\ pc_p = "idle"
    /\ p_result = "false"
    /\ LastPts \in PtsOf("refused")
    /\ len > 0

\* C5 as claimed: a push returns true exactly when its frame was stored in
\* the ring, and false exactly when the queue refused it as stopped.
C5_Original ==
    (pc_p = "idle" /\ p_result # "none") =>
        /\ p_result = "true" <=> LastPts \in PtsOf("stored")
        /\ p_result = "false" <=> LastPts \in PtsOf("refused")

\* C5 as amended: a push returns false exactly when it found the queue
\* stopped; otherwise it returns true, with its frame either stored in the
\* ring or, when try_lock failed, discarded on contention.
C5_PushResult ==
    (pc_p = "idle" /\ p_result # "none") =>
        /\ p_result = "false" <=> LastPts \in PtsOf("refused")
        /\ p_result = "true" <=> LastPts \in PtsOf("stored") \cup PtsOf("contended")
        /\ LastPts \in PtsOf("refused") => stopped
        /\ ~(LastPts \in PtsOf("stored") /\ LastPts \in PtsOf("contended"))

\* C5 witness: a push on a queue that is not stopped returned true although
\* its frame was discarded on contention.
C5_Witness ==
    /\ pc_p = "idle"
    /\ p_result = "true"
    /\ ~stopped
    /\ LastPts \in PtsOf("contended")
    /\ LastPts \notin PtsOf("stored")

\* The step of push that finds the ring lock held.
ContendedPush == pc_p = "push_try_lock" /\ pc_p' # pc_p /\ frames_lock # "free"

\* C6: a push that finds the ring lock held does not wait (its step is
\* enabled whoever holds the lock); it discards its frame, adds exactly one
\* to the drop counter, leaves len(), the positions and the ring unchanged,
\* and returns true (a drop, not a stopped queue).
C6_ContentionDrop ==
    /\ [](pc_p = "push_try_lock" => ENABLED push_TryLock)
    /\ [][ ContendedPush =>
             /\ frames_lock = "consumer"
             /\ stats_dropped' = stats_dropped + 1
             /\ p_result' = "true"
             /\ pc_p' = "idle"
             /\ p_frame' = None
             /\ UNCHANGED <<ringVars, frames_lock, stats_pushed, last_frame>> ]_vars

\* C6 witness: a frame has been dropped on contention and nothing else.
C6_Witness ==
    /\ EventsOf("contended") # {}
    /\ EventsOf("dropped") = {}
    /\ stats_dropped = 1
    /\ pc_p = "idle"
    /\ p_result = "true"
    /\ frames_lock = "consumer"

\* The step in which try_pop returns None to its caller.
TryPopNone ==
    /\ pc_c \in {"pop_check", "pop_try_lock", "pop_recheck", "pop_take"}
    /\ pc_c' \in {"idle", "grf_reuse"}

\* C7: no consumer operation waits on the producer: inside any of them the
\* render thread has an enabled step whatever lock the producer holds;
\* try_pop returns None when the queue is empty or the ring lock is held,
\* and a try_pop that returns None leaves len(), the positions, the ring
\* and frames_popped unchanged.
C7_ConsumerNeverBlocks ==
    /\ [](pc_c # "idle" => ENABLED Consumer)
    /\ []((pc_c = "idle" /\ c_op = "try_pop" /\ c_result = None)
            => stats_popped = c_entry.popped)
    /\ [][ /\ TryPopNone =>
                /\ UNCHANGED <<ringVars, stats_popped, last_frame>>
                /\ (c_op = "try_pop" => c_result' = None)
           /\ (pc_c = "pop_check" /\ count = 0 /\ pc_c' # pc_c) => TryPopNone
           /\ (pc_c = "pop_try_lock" /\ frames_lock # "free" /\ pc_c' # pc_c)
                => TryPopNone ]_vars

\* C7 witness: try_pop returned None on a queue that held a frame when it
\* was called, because the producer held the ring lock.
C7_Witness ==
    /\ pc_c = "idle"
    /\ c_op = "try_pop"
    /\ c_result = None
    /\ c_entry.count > 0
    /\ frames_lock = "producer"

\* C8 as claimed: once a push has stored a frame, every later
\* get_render_frame call returns Some frame.
C8_Original ==
    (pc_c = "idle" /\ c_op = "get_render_frame" /\ c_entry.pushed > 0)
        => c_result # None

\* pts of the frame most recently returned by try_pop.
LastPopped == Popped[Len(Popped)]

\* C9: a get_render_frame call made on an empty queue whose cache holds a
\* popped frame, with no push during the call, returns the popped frame,
\* adds exactly one to frames_reused and leaves len(), frames_popped,
\* frames_pushed and the cached last frame as they were; so do any number
\* of such calls in a row.
C9_ReuseIdempotent ==
    (/\ pc_c = "idle"
     /\ c_op = "get_render_frame"
     /\ c_entry.count = 0
     /\ c_entry.last_frame # None
     /\ pc_p = "idle"
     /\ stats_pushed = c_entry.pushed) =>
        /\ c_result = c_entry.last_frame
        /\ c_result.pts_ns = LastPopped
        /\ stats_reused = c_entry.reused + 1
        /\ len = 0
        /\ stats_popped = c_entry.popped
        /\ last_frame = c_entry.last_frame

\* C9 witness: after one push and one pop, the second get_render_frame call
\* in a row on the empty queue has returned.
C9_Witness ==
    /\ pc_c = "idle"
    /\ c_op = "get_render_frame"
    /\ pc_p = "idle"
    /\ stats_pushed = 1
    /\ stats_popped = 1
    /\ c_entry.pushed = 1
    /\ c_entry.count = 0
    /\ c_entry.reused = 1
    /\ stats_reused = 2
    /\ c_result # None

\* C10 as claimed: whenever no queue operation is in progress,
\* frames_pushed - frames_dropped_full = frames_popped + len().
C10_Original ==
    (pc_p = "idle" /\ pc_c = "idle") =>
        stats_pushed - stats_dropped = stats_popped + len

\* ================================================= VideoPlayer: stopping
\* The player owns one queue, `new_shared_queue(3)`, fed by the appsink
\* callback handle_sample on GStreamer's streaming thread and read by the
\* render thread, which is also the thread that calls VideoPlayer::stop (from
\* AnimatedPlayer::stop, Wallpaper::stop_animation and Drop).  set_state(Null)
\* returns once the streaming thread has left the callback it is in.
PlayerQueueCapacity == 3

PlayerInit ==
    /\ NoWallpaper
    /\ NoTake
    /\ NoCallback
    /\ NoGraphs
    /\ NoDetection
    /\ NoAvifFile
    /\ NoConversion
    /\ NoPlanes
    /\ new(PlayerQueueCapacity)
    /\ stream \in Contents
    /\ pc_p = "idle"
    /\ p_frame = None
    /\ p_count = 0
    /\ p_result = "none"
    /\ next_pts = 1
    /\ pc_c = "idle"
    /\ c_op = "none"
    /\ c_dest = 0
    /\ c_frame = None
    /\ c_result = None
    /\ c_entry = None
    /\ hist = <<>>
    /\ pipeline_state = "Playing"
    /\ callback = "none"
    /\ Constructed
    /\ NoTimer
    /\ NoDelivery

frameQueueVars == <<stream, requested, capacity, frames, frames_lock, write_pos,
                    read_pos, count, last_frame, stopped, stats_pushed,
                    stats_dropped, stats_popped, stats_reused>>

\* The appsink calls new_sample: handle_sample pulls the sample and builds the
\* frame (`appsink.pull_sample()` ... `QueuedFrame::new`), before it pushes.
handle_sample ==
    /\ pipeline_state = "Playing"
    /\ callback = "none"
    /\ pc_p = "idle"
    /\ next_pts <= MaxFrames
    /\ callback' = "sample"
    /\ p_result' = "none"
    /\ UNCHANGED <<newVars, timerVars, fdVars, pureVars, frameQueueVars, pc_p, p_frame, p_count, next_pts,
                   consumerVars, hist, pipeline_state>>

\* `frame_queue.push(frame)`, called once by the callback that is in flight.
handle_sample_Push ==
    /\ callback = "sample"
    /\ pc_p = "idle" => p_result = "none"
    /\ Producer

\* handle_sample returns Ok(FlowSuccess::Ok): after push returned, or early
\* when the sample has no buffer, no caps or cannot be mapped.
handle_sample_Return ==
    /\ callback = "sample"
    /\ pc_p = "idle"
    /\ callback' = "none"
    /\ UNCHANGED <<newVars, timerVars, fdVars, pureVars, frameQueueVars, producerVars, consumerVars, hist,
                   pipeline_state>>

\* The render thread uses the queue while the player is alive.
render ==
    /\ pipeline_state = "Playing"
    /\ Consumer

\* VideoPlayer::stop: `let _ = self.pipeline.set_state(State::Null); Ok(())`.
\* Nothing else is written: the queue's stopped flag is not touched
\* (FrameQueue::stop is compiled for tests only).
VideoPlayer_stop ==
    /\ pipeline_state = "Playing"
    /\ pc_c = "idle"
    /\ pipeline_state' = "Stopping"
    /\ UNCHANGED <<newVars, timerVars, fdVars, pureVars, frameQueueVars, producerVars, consumerVars, hist, callback>>

\* set_state(Null) returns when no callback is being delivered any more.
VideoPlayer_stop_Return ==
    /\ pipeline_state = "Stopping"
    /\ callback = "none"
    /\ pipeline_state' = "Null"
    /\ UNCHANGED <<newVars, timerVars, fdVars, pureVars, frameQueueVars, producerVars, consumerVars, hist, callback>>

PlayerNext ==
    \/ handle_sample
    \/ handle_sample_Push
    \/ handle_sample_Return
    \/ render
    \/ VideoPlayer_stop
    \/ VideoPlayer_stop_Return

PlayerSpec == PlayerInit /\ [][PlayerNext]_vars

\* C11 (as claimed): once VideoPlayer::stop has been called, the queue's
\* stopped flag is set, and a push made by the callback that is still being
\* delivered stores nothing and returns false.
C11_Original ==
    [][pipeline_state # "Playing" /\ callback = "sample"
         => /\ stopped
            /\ frames' = frames
            /\ count' = count
            /\ (p_result = "none" /\ p_result' # "none") => p_result' = "false"]_vars

\* ==================================================== VideoPlayer::new
\* The candidate decode graphs in the order of the or_else chain.
Candidates == <<"cuda_dmabuf", "vaapi_dmabuf", "nvdec_gl_dmabuf", "vaapi_wlshm",
                "nvdec_gl_wlshm", "gl", "software">>

\* The candidates built by a try_*_pipeline function, which tests its graph.
Tried == {"cuda_dmabuf", "vaapi_dmabuf", "nvdec_gl_dmabuf", "vaapi_wlshm",
          "nvdec_gl_wlshm", "gl"}

RECURSIVE IndexIn(_, _)
IndexIn(c, seq) == IF seq = <<>> THEN 1
                   ELSE IF Head(seq) = c THEN 1 ELSE 1 + IndexIn(c, Tail(seq))

\* Position of a candidate in the chain.
Order(c) == IndexIn(c, Candidates)

\* `let _try_dmabuf = true;`
try_dmabuf == TRUE

\* The early `return None` of each try_*_pipeline, negated: the capability
\* flags the candidate requires.  try_gl_pipeline and
\* software_fallback_pipeline take no flag.
Gate(c) ==
    CASE c = "cuda_dmabuf" -> try_dmabuf /\ has_cuda_dmabuf /\ has_nvdec
      [] c = "vaapi_dmabuf" -> try_dmabuf /\ has_vaapi
      [] c = "nvdec_gl_dmabuf" -> try_dmabuf /\ has_nvdec
      [] c = "vaapi_wlshm" -> has_vaapi
      [] c = "nvdec_gl_wlshm" -> has_nvdec
      [] c = "gl" -> TRUE
      [] c = "software" -> TRUE

\* What GStreamer can do with a candidate graph inside test_pipeline:
\* parse::launch fails; set_state(Paused) fails; the 500 ms wait of
\* `p.state(..)` ends with the state change still in progress (Ok(Async), the
\* graph not in PAUSED); the graph reaches PAUSED.
LaunchError == [launch |-> "Err", set_state |-> "Err", res |-> "Err", state |-> "Null"]
StateError == [launch |-> "Ok", set_state |-> "Err", res |-> "Err", state |-> "Null"]
Timeout == [launch |-> "Ok", set_state |-> "Ok", res |-> "Ok", state |-> "Ready"]
Paused == [launch |-> "Ok", set_state |-> "Ok", res |-> "Ok", state |-> "Paused"]
TestOutcomes == {LaunchError, StateError, Timeout, Paused}

\* Mutant of test_pipeline: the state reached is not compared with Paused.
test_pipeline_AnyState(o) ==
    IF o.launch = "Err" THEN FALSE
    ELSE IF o.set_state = "Err" THEN FALSE
    ELSE o.res = "Ok"

\* The closure test_pipeline: `res.is_ok() && state == State::Paused`.
test_pipeline(o) ==
    IF o.launch = "Err" THEN FALSE
    ELSE IF o.set_state = "Err" THEN FALSE
    ELSE o.res = "Ok" /\ o.state = "Paused"

\* The queue the player is given at the end of new; nothing runs on it yet.
QueueCreated ==
    /\ new(PlayerQueueCapacity)
    /\ stream = [kind |-> "Raw", len |-> MaxData]
    /\ pc_p = "idle"
    /\ p_frame = None
    /\ p_count = 0
    /\ p_result = "none"
    /\ next_pts = 1
    /\ pc_c = "idle"
    /\ c_op = "none"
    /\ c_dest = 0
    /\ c_frame = None
    /\ c_result = None
    /\ c_entry = None
    /\ hist = <<>>
    /\ pipeline_state = "Playing"
    /\ callback = "none"

notNewVars == <<frameQueueVars, producerVars, consumerVars, hist, playerVars,
               timerVars, fdVars, pureVars>>

NewInit ==
    /\ NoWallpaper
    /\ NoTake
    /\ NoCallback
    /\ NoGraphs
    /\ NoDetection
    /\ NoAvifFile
    /\ NoConversion
    /\ NoPlanes
    /\ QueueCreated
    /\ NoTimer
    /\ NoDelivery
    /\ gst_init_ok \in BOOLEAN
    /\ path_str \in {None, Some("path")}
    /\ has_vaapi \in BOOLEAN
    /\ has_nvdec \in BOOLEAN
    /\ has_cuda_dmabuf \in BOOLEAN
    /\ test_outcome \in [Tried -> TestOutcomes]
    /\ new_pc = "init"
    /\ constructed = <<>>
    /\ tested = <<>>
    /\ pipeline_str = None
    /\ launched = "none"
    /\ new_result = "none"

\* `gstreamer::init()?;`
new_init ==
    /\ new_pc = "init"
    /\ IF gst_init_ok
       THEN new_pc' = "path" /\ UNCHANGED new_result
       ELSE new_pc' = "done" /\ new_result' = "Err"
    /\ UNCHANGED <<notNewVars, newEnvVars, constructed, tested, pipeline_str,
                   launched>>

\* `path.to_str().ok_or_else(|| eyre!("Invalid path: ..."))?`
new_path ==
    /\ new_pc = "path"
    /\ IF path_str # None
       THEN new_pc' = Candidates[1] /\ UNCHANGED new_result
       ELSE new_pc' = "done" /\ new_result' = "Err"
    /\ UNCHANGED <<notNewVars, newEnvVars, constructed, tested, pipeline_str,
                   launched>>

\* A try_*_pipeline function: return None when the required flags are absent;
\* otherwise build the graph with format!, test it, and return Some(pipeline)
\* or None.  `.or_else` runs the next function only on None.
TryPipeline(c) ==
    /\ new_pc = c
    /\ IF ~Gate(c)
       THEN /\ new_pc' = Candidates[Order(c) + 1]
            /\ UNCHANGED <<constructed, tested, pipeline_str>>
       ELSE /\ constructed' = Append(constructed, c)
            /\ tested' = Append(tested, c)
            /\ IF test_pipeline(test_outcome[c])
               THEN /\ pipeline_str' = Some(c)
                    /\ new_pc' = "launch"
               ELSE /\ new_pc' = Candidates[Order(c) + 1]
                    /\ UNCHANGED pipeline_str
    /\ UNCHANGED <<notNewVars, newEnvVars, launched, new_result>>

try_cuda_dmabuf_pipeline == TryPipeline("cuda_dmabuf")
try_vaapi_dmabuf_pipeline == TryPipeline("vaapi_dmabuf")
try_nvdec_gl_dmabuf_pipeline == TryPipeline("nvdec_gl_dmabuf")
try_vaapi_wlshm_pipeline == TryPipeline("vaapi_wlshm")
try_nvdec_gl_wlshm_pipeline == TryPipeline("nvdec_gl_wlshm")
try_gl_pipeline == TryPipeline("gl")

\* Mutant of software_fallback_pipeline: the graph is tested like the others
\* and given up when the test fails.
software_fallback_pipeline_Tested ==
    /\ new_pc = "software"
    /\ constructed' = Append(constructed, "software")
    /\ tested' = Append(tested, "software")
    /\ \E o \in TestOutcomes :
         pipeline_str' = IF test_pipeline(o) THEN Some("software") ELSE pipeline_str
    /\ new_pc' = "launch"
    /\ UNCHANGED <<notNewVars, newEnvVars, launched, new_result>>

\* `.unwrap_or_else(|| Self::software_fallback_pipeline(..))`: the graph is
\* built and returned; test_pipeline is not called.
software_fallback_pipeline ==
    /\ new_pc = "software"
    /\ constructed' = Append(constructed, "software")
    /\ pipeline_str' = Some("software")
    /\ new_pc' = "launch"
    /\ UNCHANGED <<notNewVars, newEnvVars, tested, launched, new_result>>

\* Mutant of new_Result: new fails when a candidate's test has failed.
new_Result_FailedTest(l) ==
    IF l = "ok" /\ \A i \in 1..Len(tested) : test_pipeline(test_outcome[tested[i]])
    THEN "Ok" ELSE "Err"

\* What new returns after selection: the `?` on parse::launch, on the
\* downcast and on the appsink lookup, else `Ok(Self { .. })`.
\* detect_framerate returns a default duration instead of failing.
new_Result(l) == IF l = "ok" THEN "Ok" ELSE "Err"

\* `gstreamer::parse::launch(&pipeline_str)?` ... `Ok(Self { .. })`
new_launch ==
    /\ new_pc = "launch"
    /\ \E l \in {"ok", "err"} :
         /\ launched' = l
         /\ new_result' = new_Result(l)
    /\ new_pc' = "done"
    /\ UNCHANGED <<notNewVars, newEnvVars, constructed, tested, pipeline_str>>

NewNext ==
    \/ new_init
    \/ new_path
    \/ try_cuda_dmabuf_pipeline
    \/ try_vaapi_dmabuf_pipeline
    \/ try_nvdec_gl_dmabuf_pipeline
    \/ try_vaapi_wlshm_pipeline
    \/ try_nvdec_gl_wlshm_pipeline
    \/ try_gl_pipeline
    \/ software_fallback_pipeline
    \/ new_launch

NewSpec == NewInit /\ [][NewNext]_vars

\* ---------------------------------------------------- readings of new
\* The candidate's graph reached PAUSED when it was tested.
ReachedPaused(c) == test_outcome[c].res = "Ok" /\ test_outcome[c].state = "Paused"

\* A candidate the selection may accept: its flags are present and its live
\* test reaches PAUSED; the software graph has no flags and no test.
Acceptable(c) == Gate(c) /\ (c = "software" \/ ReachedPaused(c))

\* The first acceptable candidate of the chain.
FirstAcceptable ==
    Candidates[CHOOSE i \in 1..Len(Candidates) :
                 /\ Acceptable(Candidates[i])
                 /\ \A j \in 1..(i - 1) : ~Acceptable(Candidates[j])]

SeqSet(seq) == {seq[i] : i \in 1..Len(seq)}

Increasing(seq) ==
    \A i, j \in 1..Len(seq) : i < j => Order(seq[i]) < Order(seq[j])

Steps == <<"init", "path">> \o Candidates \o <<"launch", "done">>
Rank(pc) == IndexIn(pc, Steps)

\* Selection is over: new is past the or_else chain.
Selected == new_pc = "launch" \/ (new_pc = "done" /\ launched # "none")

\* Every candidate with a test is gated out or fails its test.
AllRejected == \A c \in Tried : ~Acceptable(c)

\* C13: selection always ends with exactly one graph.  Every statement of new
\* that is not the last can be executed and moves forward in program order, so
\* new returns after a bounded number of steps; after the chain pipeline_str
\* holds a candidate and never changes again; when every earlier candidate is
\* gated out or fails its test, it is the software graph, which was not tested.
C13_SelectionTerminates ==
    /\ [](new_pc # "done" => ENABLED NewNext)
    /\ [][Rank(new_pc') > Rank(new_pc)]_vars
    /\ [](Selected => pipeline_str # None /\ pipeline_str.some \in SeqSet(Candidates))
    /\ [][pipeline_str # None => pipeline_str' = pipeline_str]_vars
    /\ [](Selected /\ AllRejected =>
            /\ pipeline_str = Some("software")
            /\ "software" \notin SeqSet(tested))

\* All three hardware families are present, every test fails (one by
\* timeout), and new has returned with the software graph.
C13_Witness ==
    /\ new_pc = "done"
    /\ has_vaapi /\ has_nvdec /\ has_cuda_dmabuf
    /\ Len(tested) = Cardinality(Tried)
    /\ test_outcome["gl"] = Timeout
    /\ test_outcome["cuda_dmabuf"] = LaunchError
    /\ pipeline_str = Some("software")
    /\ new_result = "Ok"

\* C14 (as claimed): with no hardware decoder present (all capability flags
\* false) no candidate graph is built or tested before the software graph, and
\* the graph selected is the software graph.
C14_Original ==
    (Selected /\ ~has_vaapi /\ ~has_nvdec /\ ~has_cuda_dmabuf) =>
        /\ tested = <<>>
        /\ constructed = <<"software">>
        /\ pipeline_str = Some("software")

MaxLayers == 2
MaxAvifFrames == 2
MaxTicks == 3
MaxBus == 2

\* Bus messages: Eos, Error, and Warning for every kind check_eos only logs
\* or ignores (Warning, StateChanged, the rest).
Messages == {"Eos", "Error", "Warning"}

\* `looping: true` in VideoPlayer::new, never written afterwards.
looping == TRUE

\* Mutant of SeekedResult: check_eos reports the end after a successful seek.
SeekedResult_Ended == TRUE

\* check_eos after `self.seek_to_start()` succeeded: `return false`.
SeekedResult == FALSE

\* VideoPlayer::check_eos: pop messages until one decides; seek_ok tells
\* whether seek_simple(FLUSH | KEY_UNIT | SNAP_BEFORE, 0) succeeds.
RECURSIVE check_eos(_, _)
check_eos(b, seek_ok) ==
    IF b = <<>> THEN [eos |-> FALSE, bus |-> b, seek |-> "none"]
    ELSE CASE Head(b) = "Eos" ->
                IF looping
                THEN IF seek_ok
                     THEN [eos |-> SeekedResult, bus |-> Tail(b), seek |-> "ok"]
                     ELSE [eos |-> TRUE, bus |-> Tail(b), seek |-> "failed"]
                ELSE [eos |-> TRUE, bus |-> Tail(b), seek |-> "none"]
           [] Head(b) = "Error" -> [eos |-> TRUE, bus |-> Tail(b), seek |-> "none"]
           [] OTHER -> check_eos(Tail(b), seek_ok)

\* Mutant of NextIndex: the index is not wrapped.
NextIndex_NoWrap(i, n) == i + 1

\* `(self.current_index + 1) % frames.len()`
NextIndex(i, n) == (i + 1) % n

\* AnimatedPlayer::advance: the value returned, the new current_index, what
\* is left on the bus, and whether a seek was issued.
advance(seek_ok) ==
    IF source = "Avif"
    THEN IF frame_count = 0
         THEN [result |-> FALSE, index |-> current_index, bus |-> bus, seek |-> "none"]
         ELSE [result |-> TRUE, index |-> NextIndex(current_index, frame_count),
               bus |-> bus, seek |-> "none"]
    ELSE LET r == check_eos(bus, seek_ok) IN
         [result |-> ~r.eos, index |-> current_index, bus |-> r.bus, seek |-> r.seek]

\* AnimatedPlayer::current_frame for an image sequence:
\* `frames.get(self.current_index).cloned()`.
current_frame == IF current_index < frame_count THEN Some(current_index) ELSE None

Str(b) == IF b THEN "true" ELSE "false"

\* A layer surface: with a buffer pool, size and scale; sized but without a
\* pool; or not configured yet.
LayerStates == {[needs_redraw |-> TRUE, pool |-> TRUE, configured |-> TRUE],
                [needs_redraw |-> TRUE, pool |-> FALSE, configured |-> TRUE],
                [needs_redraw |-> TRUE, pool |-> FALSE, configured |-> FALSE]}

Layers == 1..MaxLayers

\* AnimatedPlayer::new returned Ok (an image sequence has at least one frame:
\* load_avif_frames fails on an empty one) and register_frame_timer ran.
TimerInit ==
    /\ NoWallpaper
    /\ NoTake
    /\ NoCallback
    /\ NoGraphs
    /\ NoDetection
    /\ NoAvifFile
    /\ NoConversion
    /\ NoPlanes
    /\ QueueCreated
    /\ Constructed
    /\ NoDelivery
    /\ source \in {"Avif", "Video"}
    /\ frame_count \in IF source = "Avif" THEN 1..MaxAvifFrames ELSE {0}
    /\ current_index = 0
    /\ bus = <<>>
    /\ dmabuf_global \in BOOLEAN
    /\ layers \in [Layers -> LayerStates]
    /\ attached = [l \in Layers |-> <<>>]
    /\ tick_pc = "idle"
    /\ ticks = 0
    /\ advance_result = "none"
    /\ tick_seek = "none"
    /\ dmabuf_rendered = FALSE

notTimerVars == <<frameQueueVars, producerVars, consumerVars, hist, playerVars,
                 newVars, fdVars, pureVars>>

\* A GStreamer thread posts a message.  The bus is read by advance() and by
\* process_messages only, so a message posted while the callback is between
\* them is one posted just before the next of them.
post_message ==
    /\ source = "Video"
    /\ tick_pc \in {"idle", "draw"}
    /\ Len(bus) < MaxBus
    /\ \E m \in Messages : bus' = Append(bus, m)
    /\ UNCHANGED <<notTimerVars, source, frame_count, current_index,
                   dmabuf_global, layers, attached, tick_pc, ticks,
                   advance_result, tick_seek, dmabuf_rendered>>

\* The timer fires: `if !anim_state.player.advance() { return Drop }`, then
\* every layer is marked for redraw.
frame_timer ==
    /\ tick_pc = "idle"
    /\ source = "Avif" => ticks < MaxTicks
    /\ \E seek_ok \in BOOLEAN :
         LET r == advance(seek_ok) IN
           /\ advance_result' = Str(r.result)
           /\ current_index' = r.index
           /\ bus' = r.bus
           /\ tick_seek' = r.seek
           /\ IF r.result
              THEN /\ layers' = [l \in Layers |-> [layers[l] EXCEPT !.needs_redraw = TRUE]]
                   /\ tick_pc' = "dmabuf"
              ELSE /\ tick_pc' = "dropped"
                   /\ UNCHANGED layers
    /\ ticks' = IF source = "Avif" THEN ticks + 1 ELSE ticks
    /\ attached' = [l \in Layers |-> <<>>]
    /\ dmabuf_rendered' = FALSE
    /\ UNCHANGED <<notTimerVars, source, frame_count, dmabuf_global>>

\* Mutant of FallbackNeeded: the wl_shm path is run in every tick.
FallbackNeeded_Always(rendered) == TRUE

\* `if !dmabuf_rendered { wallpaper.draw_animated_frame(timer_start); }`
FallbackNeeded(rendered) == ~rendered

\* Attach and commit one buffer on each layer of `need`, clearing needs_redraw.
Attach(need, buffer) ==
    /\ layers' = [l \in Layers |->
                    IF l \in need THEN [layers[l] EXCEPT !.needs_redraw = FALSE]
                    ELSE layers[l]]
    /\ attached' = [l \in Layers |->
                      IF l \in need THEN Append(attached[l], buffer)
                      ELSE attached[l]]

\* Wallpaper::try_draw_video_frame_dmabuf: false when the compositor has no
\* dmabuf global, the player has no DMA-BUF frame (never for an image
\* sequence), the wl_buffer cannot be created, or no layer needs a redraw;
\* else the buffer goes to every layer that needs one, and true.
try_draw_video_frame_dmabuf ==
    /\ tick_pc = "dmabuf"
    /\ \E frame \in (IF source = "Video" THEN BOOLEAN ELSE {FALSE}), wl_buffer \in BOOLEAN :
         LET need == {l \in Layers : layers[l].needs_redraw /\ layers[l].configured}
             rendered == dmabuf_global /\ frame /\ wl_buffer /\ need # {}
         IN /\ dmabuf_rendered' = rendered
            /\ IF rendered THEN Attach(need, "dmabuf")
               ELSE UNCHANGED <<layers, attached>>
            /\ tick_pc' = IF FallbackNeeded(rendered) THEN "draw" ELSE "end"
    /\ UNCHANGED <<notTimerVars, source, frame_count, current_index, bus,
                   dmabuf_global, ticks, advance_result, tick_seek>>

\* Wallpaper::draw_animated_frame: for a video process_messages() first
\* (return when it reports the end), then draw_video_frame_zero_copy; for an
\* image sequence draw_gif_frame.  `available`: the frame's dimensions, the
\* shm buffer and the frame bytes can all be had.
draw_animated_frame ==
    /\ tick_pc = "draw"
    /\ \E seek_ok \in BOOLEAN, available \in BOOLEAN :
         LET r == IF source = "Video" THEN check_eos(bus, seek_ok)
                  ELSE [eos |-> FALSE, bus |-> bus, seek |-> "none"]
             need == {l \in Layers : /\ layers[l].needs_redraw
                                     /\ layers[l].pool
                                     /\ layers[l].configured}
             frame == IF source = "Video" THEN TRUE ELSE current_frame # None
         IN /\ bus' = r.bus
            /\ IF ~r.eos /\ frame /\ need # {} /\ available
               THEN Attach(need, "shm")
               ELSE UNCHANGED <<layers, attached>>
    /\ tick_pc' = "end"
    /\ UNCHANGED <<notTimerVars, source, frame_count, current_index,
                   dmabuf_global, ticks, advance_result, tick_seek,
                   dmabuf_rendered>>

\* `TimeoutAction::ToDuration(adjusted_duration)`: the timer is armed again.
frame_timer_Return ==
    /\ tick_pc = "end"
    /\ tick_pc' = "idle"
    /\ UNCHANGED <<notTimerVars, source, frame_count, current_index, bus,
                   dmabuf_global, layers, attached, ticks, advance_result,
                   tick_seek, dmabuf_rendered>>

TimerNext ==
    \/ post_message
    \/ frame_timer
    \/ try_draw_video_frame_dmabuf
    \/ draw_animated_frame
    \/ frame_timer_Return

TimerSpec == TimerInit /\ [][TimerNext]_vars

\* No buffer has been attached to any layer in the current tick.
NothingAttached == \A l \in Layers : attached[l] = <<>>

\* C16 (as claimed): the advance() that observes Eos on a looping video seeks
\* to the start and returns false, and no frame is drawn in that tick.
C16_Original ==
    tick_seek # "none" => advance_result = "false" /\ NothingAttached

\* C16: the advance() that observes Eos on a looping video seeks to the
\* start; when the seek succeeds it returns true and the tick goes on to
\* draw; when the seek fails it returns false, the timer is dropped and
\* nothing is drawn.  A video's advance() returning false always drops the
\* timer.
C16_LoopSeek ==
    /\ tick_seek = "ok" => advance_result = "true" /\ tick_pc # "dropped"
    /\ tick_seek = "failed" =>
         advance_result = "false" /\ tick_pc = "dropped" /\ NothingAttached
    /\ advance_result = "false" => tick_pc = "dropped" /\ NothingAttached

\* A frame was drawn in the tick whose advance() seeked to the start.
C16_Witness ==
    /\ source = "Video"
    /\ tick_seek = "ok"
    /\ advance_result = "true"
    /\ tick_pc = "end"
    /\ \E l \in Layers : attached[l] # <<>>

\* C17: an image-sequence player has at least one frame; advance() returns
\* true and sets current_index to (current_index + 1) mod frame_count; so
\* 0 <= current_index < frame_count, current_frame() is Some, and after k
\* advances from index 0 the index is k mod frame_count, back at the start
\* after frame_count advances.
C17_AvifAdvance ==
    /\ [](source = "Avif" =>
            /\ frame_count > 0
            /\ current_index \in 0..(frame_count - 1)
            /\ current_frame # None
            /\ advance_result \in {"none", "true"}
            /\ current_index = ticks % frame_count)
    /\ [][(source = "Avif" /\ ticks' # ticks) =>
            /\ advance_result' = "true"
            /\ current_index' = (current_index + 1) % frame_count]_vars

\* A sequence of the largest size has been advanced once around.
C17_Witness ==
    /\ source = "Avif"
    /\ frame_count = MaxAvifFrames
    /\ ticks = frame_count
    /\ current_index = 0
    /\ advance_result = "true"

\* C18: in one tick a layer gets at most one buffer; the wl_shm path is
\* entered only after try_draw_video_frame_dmabuf returned false, and then
\* nothing has been attached yet; a DMA-BUF buffer on a layer means the
\* DMA-BUF path returned true, a shm buffer that it returned false.
C18_OneBufferPerTick ==
    /\ \A l \in Layers : attached[l] \in {<<>>, <<"dmabuf">>, <<"shm">>}
    /\ tick_pc = "draw" => ~dmabuf_rendered /\ NothingAttached
    /\ \A l \in Layers :
         /\ attached[l] = <<"dmabuf">> => dmabuf_rendered
         /\ attached[l] = <<"shm">> => ~dmabuf_rendered

\* The compositor offers DMA-BUF, the DMA-BUF path returned false, and the
\* tick ended with the shm buffer on one layer and nothing on another.
C18_Witness ==
    /\ tick_pc = "end"
    /\ dmabuf_global
    /\ source = "Video"
    /\ \E l \in Layers : attached[l] = <<"shm">>
    /\ \E l \in Layers : attached[l] = <<>> /\ layers[l].configured

\* ============================================================ frame delivery
\* The descriptors of DMA-BUF frames and the two ways a frame reaches the
\* compositor.  Each queue operation is one step here: every one of them does
\* its work under the frames mutex or gives up, and a contended try_lock is an
\* input of the step.  An OwnedFd is closed by its drop; an Arc<OwnedFd> drops
\* it when its strong count reaches zero.

\* DmaBufBuffers the compositor side is given in a run.
MaxBuffers == 1

\* raw_fd of from_raw_fd: the descriptor of the decoder's buffer.
DecoderFd == 0

\* nix::unistd::dup(raw_fd) / try_clone_to_owned: a descriptor number not in
\* use, `made` descriptors having been handed out before.
Dup_None(raw_fd, made) == raw_fd

Dup(raw_fd, made) == made + 1

\* FrameContent::Raw(data) and FrameContent::DmaBuf(data); arc names the
\* Arc<OwnedFd> of the frame's planes (all planes share one).
RawContent(n) == [kind |-> "Raw", len |-> n, arc |-> 0]
DmaContent(a) == [kind |-> "DmaBuf", len |-> 0, arc |-> a]

\* What the appsink delivers: samples whose mapping is empty, samples of a
\* frame's size, and samples in DMA-BUF memory.
DeliverStreams == {[kind |-> "Raw", len |-> 0], [kind |-> "Raw", len |-> MaxData],
                   [kind |-> "DmaBuf", len |-> 0]}

DeliveryOps == {"write_frame_to", "try_get_dmabuf_frame"}

\* The Arc table: Arc::new, Arc::clone and the drop of one handle.
Table == [arcs |-> arcs, closed |-> closes]
ArcNew(T, fd, holder) ==
    [T EXCEPT !.arcs = Append(@, [fd |-> fd, strong |-> 1, holder |-> holder])]
ArcClone(T, a) == [T EXCEPT !.arcs[a].strong = @ + 1]
ArcDrop(T, a) ==
    IF T.arcs[a].strong = 1
    THEN [arcs |-> [T.arcs EXCEPT ![a].strong = 0],
          closed |-> T.closed (+) SetToBag({T.arcs[a].fd})]
    ELSE [T EXCEPT !.arcs[a].strong = @ - 1]

\* QueuedFrame::dmabuf: the frame carries DMA-BUF data.
dmabuf(frame) == frame # None /\ frame.content.kind = "DmaBuf"

\* Clone for QueuedFrame / DmaBufFrameData (planes.clone() clones the Arcs)
\* and the drop of a frame.
CloneFrame(T, frame) == IF dmabuf(frame) THEN ArcClone(T, frame.content.arc) ELSE T
DropFrame(T, frame) == IF dmabuf(frame) THEN ArcDrop(T, frame.content.arc) ELSE T

RECURSIVE DropFrames(_, _)
DropFrames(T, fs) ==
    IF fs = <<>> THEN T ELSE DropFrames(DropFrame(T, Head(fs)), Tail(fs))

\* try_get_dmabuf_frame: `get_render_frame()?`, `frame.dmabuf()?`,
\* `try_clone_to_owned().ok()?`, then Some(DmaBufBuffer { width, height, .. }).
try_get_dmabuf_frame_Result(frame, dup_ok) ==
    IF frame = None THEN None
    ELSE IF ~dmabuf(frame) THEN None
    ELSE IF ~dup_ok THEN None
    ELSE Dimensions(frame)

BuffersMade == Cardinality({a \in 1..Len(arcs) : arcs[a].holder = "buffer"})

DeliverInit ==
    /\ NoWallpaper
    /\ NoTake
    /\ NoCallback
    /\ NoGraphs
    /\ NoDetection
    /\ NoAvifFile
    /\ NoConversion
    /\ NoPlanes
    /\ new(PlayerQueueCapacity)
    /\ stream \in DeliverStreams
    /\ pc_p = "idle"
    /\ p_frame = None
    /\ p_count = 0
    /\ p_result = "none"
    /\ next_pts = 1
    /\ pc_c = "idle"
    /\ c_op = "none"
    /\ c_dest = 0
    /\ c_frame = None
    /\ c_result = None
    /\ c_entry = None
    /\ hist = <<>>
    /\ pipeline_state = "Playing"
    /\ callback = "none"
    /\ Constructed
    /\ NoTimer
    /\ arcs = <<>>
    /\ closes = <<>>
    /\ ring = <<>>
    /\ cache = None
    /\ render_frame = None
    /\ render_op = "none"
    /\ render_dest = 0
    /\ buffers = {}
    /\ samples = 0
    /\ delivered = None
    /\ use_after_close = FALSE

notFdVars == <<frameQueueVars, producerVars, consumerVars, hist, callback,
               newVars, timerVars, pureVars>>

\* handle_sample, whole: the frame is built (create_dmabuf_frame, or the
\* mapped copy when the memory is not DMA-BUF or dup fails) and pushed.  push
\* drops the frame when the lock is contended, and otherwise stores it, over
\* the oldest one when the ring is full.
deliver_sample ==
    /\ pipeline_state = "Playing"
    /\ samples < MaxFrames
    /\ \E dup_ok \in BOOLEAN, contended \in BOOLEAN :
         LET zero_copy == stream.kind = "DmaBuf" /\ dup_ok
             T1 == IF zero_copy
                   THEN ArcNew(Table, Dup(DecoderFd, Len(arcs)), "frame")
                   ELSE Table
             frame == IF zero_copy
                      THEN QueuedFrame(DmaContent(Len(T1.arcs)), samples + 1)
                      ELSE QueuedFrame(RawContent(IF stream.kind = "Raw"
                                                  THEN stream.len ELSE MaxData),
                                       samples + 1)
             full == Len(ring) >= capacity
             T2 == IF contended THEN DropFrame(T1, frame)
                   ELSE IF full THEN DropFrame(T1, Head(ring))
                   ELSE T1
         IN /\ ring' = IF contended THEN ring
                       ELSE Append(IF full THEN Tail(ring) ELSE ring, frame)
            /\ arcs' = T2.arcs
            /\ closes' = T2.closed
    /\ samples' = samples + 1
    /\ delivered' = None
    /\ UNCHANGED <<notFdVars, pipeline_state, cache, render_frame, render_op,
                   render_dest, buffers, use_after_close>>

\* write_frame_to / try_get_dmabuf_frame begin with get_render_frame: try_pop
\* moves the oldest frame out of the ring and caches a clone of it
\* (`*last = frame.clone()`, when last_frame's try_lock succeeds); with
\* nothing popped the cached frame is cloned, or None on contention.
render_call ==
    /\ pipeline_state = "Playing"
    /\ render_op = "none"
    /\ \E op \in DeliveryOps, pop_ok \in BOOLEAN, cache_ok \in BOOLEAN :
         /\ op = "try_get_dmabuf_frame" => BuffersMade < MaxBuffers
         /\ \E d \in IF op = "write_frame_to" THEN 0..MaxData ELSE {0} :
              render_dest' = d
         /\ render_op' = op
         /\ LET popped == pop_ok /\ Len(ring) > 0
                frame == IF popped THEN Head(ring)
                         ELSE IF cache_ok THEN cache ELSE None
                T1 == IF popped
                      THEN IF cache_ok
                           THEN DropFrame(CloneFrame(Table, frame), cache)
                           ELSE Table
                      ELSE CloneFrame(Table, frame)
            IN /\ render_frame' = frame
               /\ ring' = IF popped THEN Tail(ring) ELSE ring
               /\ cache' = IF popped /\ cache_ok THEN frame ELSE cache
               /\ arcs' = T1.arcs
               /\ closes' = T1.closed
    /\ delivered' = None
    /\ UNCHANGED <<notFdVars, pipeline_state, buffers, samples, use_after_close>>

\* The rest of the call: write_to copies the bytes, or each plane's descriptor
\* is duplicated into the DmaBufBuffer; the frame is dropped on return.
render_return ==
    /\ render_op # "none"
    /\ \E dup_ok \in BOOLEAN :
         LET result == IF render_op = "write_frame_to"
                       THEN write_frame_to_Result(render_frame, render_dest)
                       ELSE try_get_dmabuf_frame_Result(render_frame, dup_ok)
             cloned == render_op = "try_get_dmabuf_frame" /\ dmabuf(render_frame)
             made == cloned /\ dup_ok
             T1 == IF made
                   THEN ArcNew(Table, Dup(arcs[render_frame.content.arc].fd,
                                          Len(arcs)), "buffer")
                   ELSE Table
             T2 == DropFrame(T1, render_frame)
         IN /\ delivered' = [op |-> render_op, frame |-> render_frame,
                             dest |-> render_dest, result |-> result]
            /\ buffers' = IF made THEN buffers \cup {Len(T1.arcs)} ELSE buffers
            /\ use_after_close' =
                 (use_after_close
                   \/ (cloned /\ BagIn(arcs[render_frame.content.arc].fd, closes)))
            /\ arcs' = T2.arcs
            /\ closes' = T2.closed
    /\ render_frame' = None
    /\ render_op' = "none"
    /\ UNCHANGED <<notFdVars, pipeline_state, ring, cache, render_dest, samples>>

\* The compositor side lets go of a DmaBufBuffer.
buffer_drop ==
    /\ \E a \in buffers :
         /\ buffers' = buffers \ {a}
         /\ arcs' = ArcDrop(Table, a).arcs
         /\ closes' = ArcDrop(Table, a).closed
    /\ delivered' = None
    /\ UNCHANGED <<notFdVars, pipeline_state, ring, cache, render_frame,
                   render_op, render_dest, samples, use_after_close>>

\* Drop for VideoPlayer: stop() sets the pipeline to Null, then the fields go:
\* the queue drops its slots and its cached frame.
VideoPlayer_drop ==
    /\ pipeline_state = "Playing"
    /\ render_op = "none"
    /\ pipeline_state' = "Null"
    /\ ring' = <<>>
    /\ cache' = None
    /\ arcs' = DropFrames(Table, Append(ring, cache)).arcs
    /\ closes' = DropFrames(Table, Append(ring, cache)).closed
    /\ delivered' = None
    /\ UNCHANGED <<notFdVars, render_frame, render_op, render_dest, buffers,
                   samples, use_after_close>>

DeliverNext ==
    \/ deliver_sample
    \/ render_call
    \/ render_return
    \/ buffer_drop
    \/ VideoPlayer_drop

DeliverSpec == DeliverInit /\ [][DeliverNext]_vars

\* Some destination lets write_frame_to deliver the frame; some outcome of
\* the descriptor duplication lets try_get_dmabuf_frame deliver it.
CanWrite(frame) == \E d \in 0..MaxData : write_frame_to_Result(frame, d) # None
CanZeroCopy(frame) ==
    \E dup_ok \in BOOLEAN : try_get_dmabuf_frame_Result(frame, dup_ok) # None

\* C19 (as stated): for the frame a delivery call was given, write_frame_to
\* returns None when the frame is DMA-BUF or the destination is smaller than
\* the frame and otherwise returns its (width, height); try_get_dmabuf_frame
\* returns None for a Raw frame; and exactly one of the two mechanisms can
\* deliver the frame.
C19_Original ==
    (delivered # None /\ delivered.frame # None) =>
      LET f == delivered.frame
      IN /\ delivered.op = "write_frame_to" =>
              delivered.result = IF dmabuf(f) \/ delivered.dest < f.content.len
                                 THEN None
                                 ELSE Dimensions(f)
         /\ (delivered.op = "try_get_dmabuf_frame" /\ ~dmabuf(f)) =>
              delivered.result = None
         /\ CanWrite(f) # CanZeroCopy(f)

\* ------------------------------------------------------------ descriptors
Arcs == 1..Len(arcs)

\* The holders of Arc a: ring slots, the last-frame cache, the frame of the
\* call in progress, and a DmaBufBuffer.
Holds(frame, a) == dmabuf(frame) /\ frame.content.arc = a
HolderCount(a) ==
    Cardinality({i \in 1..Len(ring) : Holds(ring[i], a)})
      + (IF Holds(cache, a) THEN 1 ELSE 0)
      + (IF Holds(render_frame, a) THEN 1 ELSE 0)
      + (IF a \in buffers THEN 1 ELSE 0)

\* C20: every Arc made holds a duplicate, never the decoder's descriptor, and
\* no two hold the same one; an Arc's strong count is the number of its
\* holders; a duplicate has been closed once when no holder is left and not
\* at all before, so no holder has a closed descriptor; nothing but the
\* duplicates is ever closed, the decoder's descriptor never; and no
\* descriptor is duplicated after it was closed.
C20_DescriptorLifetime ==
    /\ \A a \in Arcs :
         /\ arcs[a].fd # DecoderFd
         /\ \A b \in Arcs : arcs[b].fd = arcs[a].fd => b = a
         /\ arcs[a].strong = HolderCount(a)
         /\ CopiesIn(arcs[a].fd, closes) = IF arcs[a].strong = 0 THEN 1 ELSE 0
    /\ \A fd \in BagToSet(closes) : \E a \in Arcs : arcs[a].fd = fd
    /\ ~BagIn(DecoderFd, closes)
    /\ \A i \in 1..Len(ring) : dmabuf(ring[i]) => ring[i].content.arc \in Arcs
    /\ ~use_after_close

\* One frame's descriptor is shared by the cache and the call in progress,
\* a DmaBufBuffer holds its own duplicate, an earlier frame's descriptor has
\* been closed, and a later frame waits in the ring.
C20_Witness ==
    /\ \E a \in Arcs : arcs[a].strong = 2 /\ Holds(cache, a) /\ Holds(render_frame, a)
    /\ buffers # {}
    /\ \E a \in Arcs : arcs[a].holder = "frame" /\ arcs[a].strong = 0
    /\ \E i \in 1..Len(ring) : dmabuf(ring[i])

\* ======================================================== zero-copy export
\* One frame-timer tick of a video wallpaper over the player's queue:
\* try_draw_video_frame_dmabuf first, and draw_animated_frame (the wl_shm copy
\* path) when it returned false.  The decoder goes on pushing between the
\* steps of a tick.  The bus stays empty here: advance() returns true.

\* FrameQueue::get_render_frame on ring r and cache c: try_pop moves the
\* oldest frame out and caches a clone of it; with nothing popped the cached
\* frame is cloned.  The caller holds the returned frame.
get_render_frame(T, r, c, pop_ok, cache_ok) ==
    LET popped == pop_ok /\ Len(r) > 0
        frame == IF popped THEN Head(r) ELSE IF cache_ok THEN c ELSE None
    IN [frame |-> frame,
        ring |-> IF popped THEN Tail(r) ELSE r,
        cache |-> IF popped /\ cache_ok THEN frame ELSE c,
        table |-> IF popped
                  THEN IF cache_ok THEN DropFrame(CloneFrame(T, frame), c) ELSE T
                  ELSE CloneFrame(T, frame)]

\* The buffer a tick attaches, and the frame it shows.
Buffer(kind, frame) == [buffer |-> kind, pts |-> frame.pts_ns]

\* canvas.len() of the wl_shm buffer made at the video's dimensions.
CanvasLen == MaxData

ExportInit ==
    /\ NoWallpaper
    /\ NoTake
    /\ NoCallback
    /\ NoGraphs
    /\ NoDetection
    /\ NoAvifFile
    /\ NoConversion
    /\ NoPlanes
    /\ new(PlayerQueueCapacity)
    /\ stream \in {[kind |-> "Raw", len |-> MaxData], [kind |-> "DmaBuf", len |-> 0]}
    /\ pc_p = "idle"
    /\ p_frame = None
    /\ p_count = 0
    /\ p_result = "none"
    /\ next_pts = 1
    /\ pc_c = "idle"
    /\ c_op = "none"
    /\ c_dest = 0
    /\ c_frame = None
    /\ c_result = None
    /\ c_entry = None
    /\ hist = <<>>
    /\ pipeline_state = "Playing"
    /\ callback = "none"
    /\ Constructed
    /\ NoDelivery
    /\ source = "Video"
    /\ frame_count = 0
    /\ current_index = 0
    /\ bus = <<>>
    /\ dmabuf_global \in BOOLEAN
    /\ layers \in {ls \in [Layers -> LayerStates] : ls[1].pool}
    /\ attached = [l \in Layers |-> <<>>]
    /\ tick_pc = "idle"
    /\ ticks = 0
    /\ advance_result = "none"
    /\ tick_seek = "none"
    /\ dmabuf_rendered = FALSE

\* What no step of a tick writes.
exportFixed == <<frameQueueVars, producerVars, hist, playerVars, newVars,
                 pc_c, c_dest, c_entry, source, frame_count, current_index,
                 bus, dmabuf_global, advance_result, tick_seek, render_frame,
                 render_op, render_dest, buffers, samples, delivered,
                 use_after_close, planeVars, convertVars, avifVars,
                 onceVars, graphVars, sampleVars, wallVars>>

\* The frames removed in the tick after get_render_frame returned g.
Taken(g) ==
    IF Len(g.ring) < Len(ring) THEN Append(taken, g.frame.pts_ns) ELSE taken

\* The timer fires: advance() is true, every layer is marked for redraw.
export_frame_timer ==
    /\ tick_pc = "idle"
    /\ ticks < MaxTicks
    /\ ticks' = ticks + 1
    /\ layers' = [l \in Layers |-> [layers[l] EXCEPT !.needs_redraw = TRUE]]
    /\ attached' = [l \in Layers |-> <<>>]
    /\ dmabuf_rendered' = FALSE
    /\ c_op' = "none"
    /\ c_frame' = None
    /\ c_result' = None
    /\ tick_pc' = "dmabuf"
    /\ taken' = <<>>
    /\ UNCHANGED <<exportFixed, ring, cache, arcs, closes>>

\* Wallpaper::try_draw_video_frame_dmabuf over the queue: false without the
\* dmabuf global; else try_get_dmabuf_frame takes the frame to render (and
\* drops it on return), create_wl_buffer may refuse, and the buffer is
\* attached to every sized layer that needs a redraw.  The DmaBufBuffer is a
\* local: its descriptors are closed when the function returns.
export_try_draw ==
    /\ tick_pc = "dmabuf"
    /\ IF ~dmabuf_global
       THEN /\ dmabuf_rendered' = FALSE
            /\ tick_pc' = IF FallbackNeeded(FALSE) THEN "draw" ELSE "end"
            /\ UNCHANGED <<ring, cache, arcs, closes, c_op, c_frame, c_result,
                           layers, attached, taken>>
       ELSE \E pop_ok \in BOOLEAN, cache_ok \in BOOLEAN, dup_ok \in BOOLEAN,
               wl_ok \in BOOLEAN :
              LET g == get_render_frame(Table, ring, cache, pop_ok, cache_ok)
                  result == try_get_dmabuf_frame_Result(g.frame, dup_ok)
                  made == result # None
                  T1 == IF made
                        THEN ArcNew(g.table,
                                    Dup(g.table.arcs[g.frame.content.arc].fd,
                                        Len(g.table.arcs)), "buffer")
                        ELSE g.table
                  T2 == DropFrame(T1, g.frame)
                  T3 == IF made THEN ArcDrop(T2, Len(T1.arcs)) ELSE T2
                  need == {l \in Layers : layers[l].needs_redraw /\ layers[l].configured}
                  rendered == made /\ wl_ok /\ need # {}
              IN /\ ring' = g.ring
                 /\ cache' = g.cache
                 /\ taken' = Taken(g)
                 /\ arcs' = T3.arcs
                 /\ closes' = T3.closed
                 /\ c_op' = "try_get_dmabuf_frame"
                 /\ c_frame' = g.frame
                 /\ c_result' = result
                 /\ dmabuf_rendered' = rendered
                 /\ IF rendered THEN Attach(need, Buffer("dmabuf", g.frame))
                    ELSE UNCHANGED <<layers, attached>>
                 /\ tick_pc' = IF FallbackNeeded(rendered) THEN "draw" ELSE "end"
    /\ UNCHANGED <<exportFixed, ticks>>

\* pull_frame_to_buffer / pull_cached_frame into the wl_shm canvas: both are
\* write_frame_to; the buffer is attached when the copy was made.
PullToCanvas(next_pc) ==
    \E pop_ok \in BOOLEAN, cache_ok \in BOOLEAN :
      LET g == get_render_frame(Table, ring, cache, pop_ok, cache_ok)
          info == write_frame_to_Result(g.frame, CanvasLen)
          T1 == DropFrame(g.table, g.frame)
          need == {l \in Layers : /\ layers[l].needs_redraw
                                  /\ layers[l].pool
                                  /\ layers[l].configured}
      IN /\ ring' = g.ring
         /\ cache' = g.cache
         /\ taken' = Taken(g)
         /\ arcs' = T1.arcs
         /\ closes' = T1.closed
         /\ IF info # None
            THEN /\ Attach(need, Buffer("shm", g.frame))
                 /\ tick_pc' = "end"
            ELSE /\ UNCHANGED <<layers, attached>>
                 /\ tick_pc' = next_pc

\* draw_animated_frame -> draw_video_frame_zero_copy: return false with no
\* layer to draw, without the video's dimensions or the wl_shm buffer; else
\* pull_frame_to_buffer.
export_draw ==
    /\ tick_pc = "draw"
    /\ \E shm_ok \in BOOLEAN :
         LET need == {l \in Layers : /\ layers[l].needs_redraw
                                     /\ layers[l].pool
                                     /\ layers[l].configured}
         IN IF need = {} \/ ~shm_ok
            THEN /\ tick_pc' = "end"
                 /\ UNCHANGED <<ring, cache, arcs, closes, layers, attached,
                                taken>>
            ELSE PullToCanvas("cached")
    /\ UNCHANGED <<exportFixed, ticks, dmabuf_rendered, c_op, c_frame, c_result>>

\* `None => match anim_state.player.pull_cached_frame(canvas)`.
export_draw_cached ==
    /\ tick_pc = "cached"
    /\ PullToCanvas("end")
    /\ UNCHANGED <<exportFixed, ticks, dmabuf_rendered, c_op, c_frame, c_result>>

ExportNext ==
    \/ deliver_sample
    \/ export_frame_timer
    \/ export_try_draw
    \/ export_draw
    \/ export_draw_cached
    \/ frame_timer_Return

ExportSpec == ExportInit /\ [][ExportNext]_vars

\* The layers the wl_shm path can draw: sized, scaled and with a pool.
Drawable == {l \in Layers : layers[l].pool /\ layers[l].configured}

\* C21 (as stated): when the tick's zero-copy export of a frame failed, the
\* same tick has drawn that frame through the shared-memory copy path by the
\* time it ends.
C21_Original ==
    (/\ tick_pc = "end"
     /\ c_op = "try_get_dmabuf_frame"
     /\ c_frame # None
     /\ ~dmabuf_rendered
     /\ Drawable # {})
      => \A l \in Drawable : attached[l] = <<Buffer("shm", c_frame)>>

\* ========================================================== DMA-BUF planes
\* VideoPlayer::create_dmabuf_frame and the DmaBufFrameData constructors, as
\* functions of the sample: its dimensions, its format and its VideoMeta.

\* Planes a VideoMeta describes at most.
MaxMetaPlanes == 3

\* u32 products: every value here stays below 2^31, where u32 does not wrap.
Mul32(a, b) == a * b

\* The state every specification of a function on its own starts the rest of
\* the program in, and what its steps leave alone.
Quiet ==
    /\ QueueCreated
    /\ Constructed
    /\ NoTimer
    /\ NoDelivery
notPureVars == <<frameQueueVars, producerVars, consumerVars, hist, playerVars,
                 newVars, timerVars, fdVars>>

Widths == {1, 64, 65, 1920}
Heights == {1, 2, 1080}
Strides == {64, 2048}
Offsets == {0, 4096}

\* buffer.meta::<VideoMeta>(): none, or n strides and n offsets.
VideoMetas ==
    {None} \cup UNION {[stride : [1..n -> Strides], offset : [1..n -> Offsets]] :
                        n \in 0..MaxMetaPlanes}

\* `(width + 63) & !63`
aligned_width(width) == ((width + 63) \div 64) * 64

\* `let y_size = aligned_width * height;`
y_size_Chroma(aligned, height) == Mul32(aligned, height) \div 2

y_size(aligned, height) == Mul32(aligned, height)

\* The (strides, offsets) of create_dmabuf_frame: the VideoMeta's, or the
\* defaults for the aligned width.
PlaneInfo(v, meta) ==
    IF meta # None THEN [stride |-> meta.stride, offset |-> meta.offset]
    ELSE IF v.is_nv12
         THEN [stride |-> <<aligned_width(v.width), aligned_width(v.width)>>,
               offset |-> <<0, y_size(aligned_width(v.width), v.height)>>]
         ELSE [stride |-> <<Mul32(aligned_width(v.width), 4)>>, offset |-> <<0>>]

\* `strides.first().copied().unwrap_or(d)`
FirstOr(seq, d) == IF Len(seq) > 0 THEN seq[1] ELSE d

DmaBufPlaneData(fd, offset, stride) == [fd |-> fd, offset |-> offset, stride |-> stride]
DupError == [err |-> "dup"]

\* DmaBufFrameData::from_raw_fd: one plane at offset 0.
from_raw_fd(raw_fd, stride, dup_ok) ==
    IF ~dup_ok THEN DupError
    ELSE [planes |-> <<DmaBufPlaneData(Dup(raw_fd, 0), 0, stride)>>]

\* DmaBufFrameData::from_raw_fd_nv12: `let uv_offset = y_stride * height;`,
\* both planes on clones of one Arc.
from_raw_fd_nv12(raw_fd, height, y_stride, dup_ok) ==
    IF ~dup_ok THEN DupError
    ELSE [planes |-> <<DmaBufPlaneData(Dup(raw_fd, 0), 0, y_stride),
                       DmaBufPlaneData(Dup(raw_fd, 0), Mul32(y_stride, height),
                                       y_stride)>>]

\* DmaBufFrameData::from_raw_fd_nv12_with_offsets.
from_raw_fd_nv12_with_offsets(raw_fd, y_stride, uv_stride, y_offset, uv_offset, dup_ok) ==
    IF ~dup_ok THEN DupError
    ELSE [planes |-> <<DmaBufPlaneData(Dup(raw_fd, 0), y_offset, y_stride),
                       DmaBufPlaneData(Dup(raw_fd, 0), uv_offset, uv_stride)>>]

\* The dmabuf_result of create_dmabuf_frame.
create_dmabuf_frame_Result(v, meta, dup_ok) ==
    LET info == PlaneInfo(v, meta)
        strides == info.stride
        offsets == info.offset
    IN IF v.is_nv12 /\ Len(strides) >= 2 /\ Len(offsets) >= 2
       THEN from_raw_fd_nv12_with_offsets(DecoderFd, strides[1], strides[2],
                                          offsets[1], offsets[2], dup_ok)
       ELSE IF v.is_nv12
       THEN from_raw_fd_nv12(DecoderFd, v.height, FirstOr(strides, v.width), dup_ok)
       ELSE from_raw_fd(DecoderFd, FirstOr(strides, Mul32(v.width, 4)), dup_ok)

PlaneInit ==
    /\ NoWallpaper
    /\ NoTake
    /\ NoCallback
    /\ NoGraphs
    /\ NoDetection
    /\ NoAvifFile
    /\ NoConversion
    /\ Quiet
    /\ video \in [width : Widths, height : Heights, is_nv12 : BOOLEAN]
    /\ video_meta \in VideoMetas
    /\ dmabuf_result = None

notPlaneVars == <<notPureVars, convertVars, avifVars, onceVars, graphVars, sampleVars, tickVars, wallVars>>

create_dmabuf_frame ==
    /\ dmabuf_result = None
    /\ \E dup_ok \in BOOLEAN :
         dmabuf_result' = create_dmabuf_frame_Result(video, video_meta, dup_ok)
    /\ UNCHANGED <<notPlaneVars, video, video_meta>>

PlaneNext == create_dmabuf_frame

PlaneSpec == PlaneInit /\ [][PlaneNext]_vars

\* The decoder described both planes itself.
PerPlaneMeta == video_meta # None /\ Len(video_meta.stride) >= 2

\* C22: the frame data built for an NV12 sample has two planes on one
\* duplicated descriptor; when the VideoMeta gives strides and offsets for
\* both planes they are the planes' strides and offsets unchanged; otherwise
\* plane 0 is at offset 0 and plane 1 at plane 0's stride times the height.
\* For y_stride 1920 and height 1080 that offset is 2073600.
C22_PlaneOffsets ==
    /\ (dmabuf_result # None /\ dmabuf_result # DupError /\ video.is_nv12) =>
         LET p == dmabuf_result.planes
         IN /\ Len(p) = 2
            /\ p[1].fd = p[2].fd
            /\ p[1].fd # DecoderFd
            /\ IF PerPlaneMeta
               THEN \A i \in 1..2 : /\ p[i].offset = video_meta.offset[i]
                                    /\ p[i].stride = video_meta.stride[i]
               ELSE /\ p[1].offset = 0
                    /\ p[2].offset = p[1].stride * video.height
    /\ from_raw_fd_nv12(DecoderFd, 1080, 1920, TRUE).planes[2].offset = 2073600

\* A 1920x1080 NV12 sample without VideoMeta was given its two planes.
C22_Witness ==
    /\ video = [width |-> 1920, height |-> 1080, is_nv12 |-> TRUE]
    /\ video_meta = None
    /\ dmabuf_result # None
    /\ dmabuf_result # DupError
    /\ dmabuf_result.planes[2].offset = 2073600

\* ============================================================== convert.rs
\* Strings are sequences of characters, so that to_lowercase and contains
\* are computed.

\* Calls made in a run.
MaxCalls == 2

\* str::to_lowercase, on the letters that occur here in upper case.
LowerChar(ch) ==
    CASE ch = "G" -> "g" [] ch = "I" -> "i" [] ch = "F" -> "f"
      [] ch = "W" -> "w" [] ch = "E" -> "e" [] ch = "B" -> "b"
      [] ch = "M" -> "m" [] ch = "V" -> "v" [] ch = "P" -> "p"
      [] OTHER -> ch
to_lowercase_Identity(str) == str

to_lowercase(str) == [i \in 1..Len(str) |-> LowerChar(str[i])]

\* str::contains
contains(str, pat) ==
    \E i \in 0..(Len(str) - Len(pat)) : SubSeq(str, i + 1, i + Len(pat)) = pat

UNIVERSAL_HW_CODECS == {<<"v","p","9">>, <<"v","p","8">>, <<"a","v","1">>}
CONVERTIBLE_CODECS ==
    {<<"m","p","e","g","4">>, <<"m","p","e","g","2","v","i","d","e","o">>,
     <<"m","s","m","p","e","g","4">>,
     <<"m","p","e","g","1","v","i","d","e","o">>, <<"m","j","p","e","g">>}
PROBLEMATIC_CODECS ==
    {<<"h","2","6","4">>, <<"h","e","v","c">>, <<"h","2","6","5">>}

\* path.extension().and_then(|e| e.to_str()): none, or the extension.
Extensions ==
    {None, Some(<<"g","i","f">>), Some(<<"G","I","F">>), Some(<<"G","i","f">>),
     Some(<<"w","e","b","m">>), Some(<<"W","e","b","M">>),
     Some(<<"m","p","4">>)}

\* What ffprobe prints for the first video stream when it succeeds: the
\* codecs of the three lists, one of none of them, and nothing.
ProbeOutputs ==
    UNIVERSAL_HW_CODECS
      \cup {<<"h","2","6","4">>, <<"h","e","v","c">>,
            <<"m","p","e","g","4">>, <<"m","p","e","g","2","v","i","d","e","o">>,
            <<"m","j","p","e","g">>, <<"V","P","9">>,
            <<"t","h","e","o","r","a">>, <<>>}

\* `.extension()...map(|e| e.to_lowercase() == ext).unwrap_or(false)`
ExtensionIs(path, ext) ==
    IF path.extension = None THEN FALSE
    ELSE to_lowercase(path.extension.some) = ext

\* probe_video_codec: None when ffprobe cannot be run or fails, else its
\* output in lower case.
probe_video_codec(probe) ==
    IF probe = None THEN None ELSE Some(to_lowercase(probe.some))

InList(codec, list) == \E c \in list : contains(codec, c)

\* needs_conversion
needs_conversion_ProbeFailureFalse(path, nvidia, probe) ==
    IF ExtensionIs(path, <<"g","i","f">>) THEN FALSE
    ELSE IF ExtensionIs(path, <<"w","e","b","m">>) THEN FALSE
    ELSE IF nvidia THEN FALSE
    ELSE LET codec == probe_video_codec(probe)
         IN IF codec = None THEN FALSE
            ELSE IF InList(codec.some, UNIVERSAL_HW_CODECS) THEN FALSE
            ELSE IF InList(codec.some, CONVERTIBLE_CODECS) THEN TRUE
            ELSE IF InList(codec.some, PROBLEMATIC_CODECS) THEN TRUE
            ELSE FALSE

needs_conversion(path, nvidia, probe) ==
    IF ExtensionIs(path, <<"g","i","f">>) THEN FALSE
    ELSE IF ExtensionIs(path, <<"w","e","b","m">>) THEN FALSE
    ELSE IF nvidia THEN FALSE
    ELSE LET codec == probe_video_codec(probe)
         IN IF codec = None THEN TRUE
            ELSE IF InList(codec.some, UNIVERSAL_HW_CODECS) THEN FALSE
            ELSE IF InList(codec.some, CONVERTIBLE_CODECS) THEN TRUE
            ELSE IF InList(codec.some, PROBLEMATIC_CODECS) THEN TRUE
            ELSE FALSE

\* get_cached_path: the data directory and the source's metadata (its
\* modification time goes into the key) must both be had.
get_cached_path(path, env) ==
    IF env.data_dir /\ path.exists THEN Some("cached") ELSE None

FileStates == {"missing", "empty", "data"}

\* A source file that does not exist cannot be probed.
ConvertInit ==
    /\ NoWallpaper
    /\ NoTake
    /\ NoCallback
    /\ NoGraphs
    /\ NoDetection
    /\ NoAvifFile
    /\ Quiet
    /\ NoPlanes
    /\ conv_source \in [extension : Extensions, exists : BOOLEAN]
    /\ conv_env \in [nvidia : BOOLEAN, data_dir : BOOLEAN,
                     probe : {None} \cup {Some(o) : o \in ProbeOutputs}]
    /\ ~conv_source.exists => conv_env.probe = None
    /\ cache_file \in (IF get_cached_path(conv_source, conv_env) = None
                       THEN {"missing"} ELSE FileStates)
    /\ calls = <<>>

\* One run of an encoder: its exit status and the output file it leaves.
Runs == [ok : BOOLEAN, file : FileStates]
NoRun == [ok |-> FALSE, file |-> "missing"]

\* How far a call got before the tools: FFmpeg missing, the cache directory
\* cannot be made, or neither.
Setups == {"ok", "no_ffmpeg", "no_dir"}
\* gst-launch-1.0 decoding to the temporary file.
Decodes == {"failed", "empty", "ok"}

\* The check of a finished output: `if file_size == 0 { remove_file; Err }`.
VerifyOutput_KeepEmpty(file) ==
    IF file = "data" THEN [ok |-> TRUE, file |-> file]
    ELSE [ok |-> FALSE, file |-> file]

VerifyOutput(file) ==
    IF file = "data" THEN [ok |-> TRUE, file |-> file]
    ELSE [ok |-> FALSE, file |-> "missing"]

\* convert_with_gstreamer(source, target) on a target in state `file`.
convert_with_gstreamer(file, decode, run) ==
    IF decode # "ok" THEN [ok |-> FALSE, file |-> file]
    ELSE IF ~run.ok THEN [ok |-> FALSE, file |-> run.file]
    ELSE VerifyOutput(run.file)

\* The FFmpeg path of convert_to_vp9: the VAAPI run with its software
\* fallback, or the software run, then the check of the output.
convert_with_ffmpeg(use_vaapi, r1, r2) ==
    IF ~r1.ok /\ use_vaapi
    THEN IF ~r2.ok THEN [ok |-> FALSE, file |-> r2.file]
         ELSE VerifyOutput(r2.file)
    ELSE IF ~r1.ok THEN [ok |-> FALSE, file |-> r1.file]
    ELSE VerifyOutput(r1.file)

\* A cache hit may not be taken for a cached file of any size.
CacheHit_AnySize(file) == file # "missing"

\* `if cached_path.exists() { ... if file_size > 0 { return Ok(cached_path) }`
CacheHit(file) == file = "data"

\* convert_to_vp9 with the cache file in state `file`; `in` is what the
\* machine and the tools do during the call.
convert_to_vp9(path, env, file, in) ==
    LET miss == [ok |-> FALSE, file |-> file, tools |-> {}, route |-> "none",
                 removed |-> FALSE, empty_output |-> FALSE]
    IN IF get_cached_path(path, env) = None THEN miss
       ELSE IF CacheHit(file)
       THEN [miss EXCEPT !.ok = TRUE, !.route = "cache"]
       ELSE
         LET removed == file = "empty"
             c1 == "missing"
             codec == probe_video_codec(env.probe)
             is_h264_hevc == codec # None /\ InList(codec.some, PROBLEMATIC_CODECS)
             via_gst == is_h264_hevc /\ in.gst
             g == convert_with_gstreamer(c1, in.decode, in.gst_run)
             use_vaapi == in.vaapi /\ ~env.nvidia /\ ~is_h264_hevc
             f == convert_with_ffmpeg(use_vaapi, in.r1, in.r2)
             t0 == {"ffmpeg -version"}
             t1 == t0 \cup {"ffprobe"}
                      \cup (IF is_h264_hevc THEN {"gst-launch-1.0 --version"} ELSE {})
             t2 == t1 \cup (IF via_gst THEN {"gst-launch-1.0"} ELSE {})
                      \cup (IF via_gst /\ in.decode = "ok" THEN {"ffmpeg"} ELSE {})
         IN IF in.setup = "no_ffmpeg"
            THEN [miss EXCEPT !.file = c1, !.tools = t0, !.removed = removed]
            ELSE IF in.setup = "no_dir"
            THEN [miss EXCEPT !.file = c1, !.tools = t0, !.removed = removed]
            ELSE IF via_gst /\ g.ok
            THEN [ok |-> TRUE, file |-> g.file, tools |-> t2,
                  route |-> "gstreamer", removed |-> removed,
                  empty_output |-> FALSE]
            ELSE [ok |-> f.ok, file |-> f.file,
                  tools |-> t2 \cup {"ffmpeg -hwaccels", "ffmpeg"},
                  route |-> "ffmpeg", removed |-> removed,
                  empty_output |->
                    (LET last == IF ~in.r1.ok /\ use_vaapi THEN in.r2 ELSE in.r1
                     IN last.ok /\ last.file = "empty")]

notConvertVars == <<notPureVars, planeVars, avifVars, onceVars, graphVars, sampleVars, tickVars, wallVars>>

\* A call returned: its record joins the calls made.
Returned(entry, needs, converted, r, path) ==
    /\ calls' = Append(calls, [entry |-> entry, needs |-> needs,
                               converted |-> converted, ok |-> r.ok,
                               path |-> path, tools |-> r.tools,
                               route |-> r.route, removed |-> r.removed,
                               empty_output |-> r.empty_output,
                               before |-> cache_file, after |-> r.file])
    /\ cache_file' = r.file

\* convert_to_vp9 is run, for get_optimal_video_path or on its own, with
\* every behaviour of the tools it gets to.
Convert(entry, needs) ==
    LET cold == /\ get_cached_path(conv_source, conv_env) # None
                /\ ~CacheHit(cache_file)
        codec == probe_video_codec(conv_env.probe)
        h264 == codec # None /\ InList(codec.some, PROBLEMATIC_CODECS)
    IN \E setup \in (IF cold THEN Setups ELSE {"ok"}) :
       \E gst \in (IF cold /\ setup = "ok" /\ h264 THEN BOOLEAN ELSE {FALSE}) :
       \E decode \in (IF gst THEN Decodes ELSE {"failed"}) :
       \E gst_run \in (IF gst /\ decode = "ok" THEN Runs ELSE {NoRun}) :
         LET encode == /\ cold
                       /\ setup = "ok"
                       /\ ~(gst /\ convert_with_gstreamer("missing", decode, gst_run).ok)
         IN \E vaapi \in (IF encode THEN BOOLEAN ELSE {FALSE}) :
            \E r1 \in (IF encode THEN Runs ELSE {NoRun}) :
            \E r2 \in (IF encode /\ ~r1.ok /\ vaapi /\ ~conv_env.nvidia /\ ~h264
                       THEN Runs ELSE {NoRun}) :
              LET r == convert_to_vp9(conv_source, conv_env, cache_file,
                                      [setup |-> setup, gst |-> gst, decode |-> decode,
                                       gst_run |-> gst_run, vaapi |-> vaapi,
                                       r1 |-> r1, r2 |-> r2])
              IN Returned(entry, needs, TRUE, r,
                          IF r.ok THEN "cached"
                          ELSE IF entry = "get_optimal_video_path" THEN "source"
                          ELSE "none")

\* get_optimal_video_path(source)
get_optimal_video_path ==
    /\ Len(calls) < MaxCalls
    /\ IF needs_conversion(conv_source, conv_env.nvidia, conv_env.probe)
       THEN Convert("get_optimal_video_path", "true")
       ELSE Returned("get_optimal_video_path", "false", FALSE,
                     [ok |-> FALSE, file |-> cache_file, tools |-> {},
                      route |-> "none", removed |-> FALSE,
                      empty_output |-> FALSE],
                     "source")
    /\ UNCHANGED <<notConvertVars, conv_source, conv_env>>

\* convert_to_vp9(source), called on its own.
call_convert_to_vp9 ==
    /\ Len(calls) < MaxCalls
    /\ Convert("convert_to_vp9", "none")
    /\ UNCHANGED <<notConvertVars, conv_source, conv_env>>

ConvertNext ==
    \/ get_optimal_video_path
    \/ call_convert_to_vp9

ConvertSpec == ConvertInit /\ [][ConvertNext]_vars

\* The calls of get_optimal_video_path and the runs of convert_to_vp9 made.
Optimal == {i \in 1..Len(calls) : calls[i].entry = "get_optimal_video_path"}
Converts == {i \in 1..Len(calls) : calls[i].converted}

\* The source's extension spells gif or webm in some letter case.
GifOrWebm ==
    conv_source.extension \in
      {Some(<<"g","i","f">>), Some(<<"G","I","F">>), Some(<<"G","i","f">>),
       Some(<<"w","e","b","m">>), Some(<<"W","e","b","M">>)}

\* C23: for a path whose extension is gif or webm in any letter case,
\* whatever the codec, the GPU and whether the file exists, needs_conversion
\* is false and get_optimal_video_path returns the original path, running
\* no conversion.
C23_ExtensionNoConversion ==
    GifOrWebm =>
      \A i \in Optimal : /\ calls[i].needs = "false"
                         /\ ~calls[i].converted
                         /\ calls[i].path = "source"
                         /\ calls[i].after = calls[i].before

\* TEST.WEBM-like: an upper-case extension on a machine without NVIDIA GPU,
\* the file probing as mpeg4, was asked for and returned as it is.
C23_Witness ==
    /\ conv_source.extension \in {Some(<<"G","I","F">>), Some(<<"W","e","b","M">>)}
    /\ ~conv_env.nvidia
    /\ conv_env.probe = Some(<<"m","p","e","g","4">>)
    /\ \E i \in Optimal : calls[i].path = "source"

\* The codec ffprobe names, in lower case, is one of `names`.
Probed(names) ==
    /\ conv_env.probe # None
    /\ conv_env.probe.some \in names

\* C24 (as stated): for a path whose extension is neither gif nor webm,
\* needs_conversion is false for vp9, vp8 and av1, true for mpeg4,
\* mpeg2video and mjpeg, and true for h264 and hevc, whose conversion asks
\* for the GStreamer route once it gets to choosing one.
C24_Original ==
    ~GifOrWebm =>
      \A i \in Optimal :
        /\ Probed({<<"v","p","9">>, <<"v","p","8">>, <<"a","v","1">>})
             => calls[i].needs = "false"
        /\ Probed({<<"m","p","e","g","4">>,
                   <<"m","p","e","g","2","v","i","d","e","o">>,
                   <<"m","j","p","e","g">>})
             => calls[i].needs = "true"
        /\ Probed({<<"h","2","6","4">>, <<"h","e","v","c">>})
             => /\ calls[i].needs = "true"
                /\ "ffprobe" \in calls[i].tools
                     => "gst-launch-1.0 --version" \in calls[i].tools

\* ffprobe named a codec of none of the three lists, or printed nothing.
UnknownCodec == Probed({<<"t","h","e","o","r","a">>, <<>>})

\* C25 (as stated): with an unknown codec, or no codec at all from the
\* probe, needs_conversion is false and the original file is played.
C25_Original ==
    (~GifOrWebm /\ (UnknownCodec \/ conv_env.probe = None)) =>
      \A i \in Optimal : calls[i].needs = "false" /\ calls[i].path = "source"

\* C25: when ffprobe names a codec of none of the three lists, or prints
\* nothing, needs_conversion is false and the original path is returned;
\* when ffprobe cannot be run or fails, needs_conversion is true on a machine
\* without NVIDIA GPU and false on one with it.
C25_UnknownCodec ==
    ~GifOrWebm =>
      \A i \in Optimal :
        /\ UnknownCodec => calls[i].needs = "false" /\ calls[i].path = "source"
        /\ conv_env.probe = None =>
             calls[i].needs = IF conv_env.nvidia THEN "false" ELSE "true"

\* Both cases happened: an unknown codec played as it is, and a failed probe
\* that sent the file to conversion.
C25_Witness ==
    /\ ~GifOrWebm
    /\ ~conv_env.nvidia
    /\ \/ UnknownCodec /\ (\E i \in Optimal : calls[i].path = "source")
       \/ conv_env.probe = None /\ (\E i \in Optimal : calls[i].converted)
    /\ Len(calls) = MaxCalls

\* C26: get_optimal_video_path always returns a path, the original or the
\* converted one; it returns the converted path exactly when convert_to_vp9
\* was run and returned Ok, and then the cache artifact holds data; in every
\* failure it returns the original; a zero-byte output of a tool run that
\* reported success is removed and counted as a failure.
C26_OptimalPath ==
    \A i \in Optimal :
      /\ calls[i].path \in {"source", "cached"}
      /\ calls[i].path = "cached" <=> (calls[i].converted /\ calls[i].ok)
      /\ calls[i].path = "cached" => calls[i].after = "data"
      /\ calls[i].empty_output =>
           /\ ~calls[i].ok
           /\ calls[i].after = "missing"
           /\ calls[i].path = "source"

\* Both outcomes in one run: a conversion whose tool left an empty file gave
\* back the original, and the next one gave the converted path.
C26_Witness ==
    /\ Len(calls) = 2
    /\ calls[1].entry = "get_optimal_video_path"
    /\ calls[1].empty_output /\ calls[1].path = "source"
    /\ calls[2].entry = "get_optimal_video_path"
    /\ calls[2].route # "cache" /\ calls[2].path = "cached"

\* What the first two sentences of C27 say of one run of convert_to_vp9: an
\* artifact with data is returned as it is with no tool invoked; an empty one
\* is deleted and the conversion goes on to its tools.
CacheRule(i) ==
    /\ calls[i].before = "data" =>
         /\ calls[i].ok
         /\ calls[i].route = "cache"
         /\ calls[i].tools = {}
         /\ calls[i].after = "data"
    /\ calls[i].before = "empty" =>
         /\ calls[i].removed
         /\ calls[i].route # "cache"
         /\ "ffmpeg -version" \in calls[i].tools

\* C27 (as stated): the cache rule, and any two calls for the same
\* unmodified source return the same path, the second running no tool.
C27_Original ==
    /\ \A i \in Converts : CacheRule(i)
    /\ \A i, j \in Converts :
         i < j => /\ calls[j].ok = calls[i].ok
                  /\ calls[j].path = calls[i].path
                  /\ calls[j].tools = {}

\* C27: the cache rule, and once a call for a source has returned Ok every
\* later call for the same unmodified source returns the same path from the
\* cache, running no tool and leaving the artifact as it is.
C27_CacheHit ==
    /\ \A i \in Converts : CacheRule(i)
    /\ \A i, j \in Converts :
         (i < j /\ calls[i].ok) =>
             /\ calls[j].ok
             /\ calls[j].route = "cache"
             /\ calls[j].tools = {}
             /\ calls[j].after = calls[j].before

\* An empty artifact was deleted and converted again, and the call after it
\* was served from the cache.
C27_Witness ==
    /\ Len(calls) = 2
    /\ calls[1].converted /\ calls[1].before = "empty" /\ calls[1].removed
    /\ calls[1].ok
    /\ calls[2].converted /\ calls[2].route = "cache"

\* ===================================================== is_animated_avif
\* A file is its length in bytes, the four bytes of its first box's size
\* field and the four-byte groups that follow them; of the last group only
\* the bytes within the length exist.

\* Bytes in the longest file.
MaxFileLen == 24

\* The header is_animated_avif reads: size, type and major brand.
HeaderLen == 12
\* A brand, a box type and the minor version are four bytes each.
BrandLen == 4
\* The largest ftyp box whose compatible brands are read.
MaxFtypSize == 256

FourCC == {"ftyp", "avis", "avif"}

\* Size fields: 0, 12, 13, 16, 18, 20, 24, 28, 256, 260 and 16777232.
SizeFields ==
    {<<0, 0, 0, b>> : b \in {0, 12, 13, 16, 18, 20, 24, 28}}
      \cup {<<0, 0, 1, 0>>, <<0, 0, 1, 4>>, <<1, 0, 0, 16>>}

\* Four-byte groups after the size field in a file of `length` bytes.
GroupsIn(length) ==
    IF length <= BrandLen THEN 0 ELSE (length - 1) \div BrandLen

\* Lengths of the files that hold a whole ftyp box larger than MaxFtypSize.
\* Such a file is written out up to MaxFileLen; the bytes after that are
\* codes that are neither ftyp, avis nor avif.
LongFileLens == {MaxFtypSize + BrandLen, MaxFtypSize + 2 * BrandLen}

Written(length) ==
    IF GroupsIn(length) <= GroupsIn(MaxFileLen)
    THEN GroupsIn(length) ELSE GroupsIn(MaxFileLen)

AvifFiles ==
    UNION {[length : {length}, size : SizeFields,
            groups : [1..Written(length) -> FourCC]] :
             length \in (0..MaxFileLen) \cup LongFileLens}

\* The four-byte code of group g of the file.
GroupAt(file, g) ==
    IF g \in DOMAIN file.groups THEN file.groups[g] ELSE "free"

\* u32::from_be_bytes
from_be_bytes_LittleEndian(b) ==
    ((b[4] * 256 + b[3]) * 256 + b[2]) * 256 + b[1]

from_be_bytes(b) == ((b[1] * 256 + b[2]) * 256 + b[3]) * 256 + b[4]

\* file.read_exact of the bytes up to offset `upto`
read_exact(file, upto) == upto <= file.length

\* `&brands_data[4..]` cut by chunks_exact(4): the groups from the one
\* after the minor version up to the last whole one in the box.
compatible_brands_WithMinor(file, box_size) ==
    [k \in 1..((box_size - HeaderLen) \div BrandLen) |-> GroupAt(file, 2 + k)]

compatible_brands(file, box_size) ==
    [k \in 1..((box_size - HeaderLen - BrandLen) \div BrandLen) |->
       GroupAt(file, 3 + k)]

is_animated_avif_Result(file) ==
    IF file = None THEN FALSE
    ELSE IF ~read_exact(file, HeaderLen) THEN FALSE
    ELSE IF file.groups[1] # "ftyp" THEN FALSE
    ELSE IF file.groups[2] = "avis" THEN TRUE
    ELSE LET box_size == from_be_bytes(file.size)
         IN IF box_size > HeaderLen /\ box_size <= MaxFtypSize
            THEN IF read_exact(file, box_size)
                 THEN IF box_size - HeaderLen >= BrandLen
                      THEN \E k \in DOMAIN compatible_brands(file, box_size) :
                             compatible_brands(file, box_size)[k] = "avis"
                      ELSE FALSE
                 ELSE FALSE
            ELSE FALSE

AvifInit ==
    /\ NoWallpaper
    /\ NoTake
    /\ NoCallback
    /\ NoGraphs
    /\ NoDetection
    /\ Quiet
    /\ NoPlanes
    /\ NoConversion
    /\ avif_file \in {None} \cup AvifFiles
    /\ avif_result = None

notAvifVars == <<notPureVars, planeVars, convertVars, onceVars, graphVars, sampleVars, tickVars, wallVars>>

\* is_animated_avif(path)
is_animated_avif ==
    /\ avif_result = None
    /\ avif_result' = Some(is_animated_avif_Result(avif_file))
    /\ UNCHANGED <<notAvifVars, avif_file>>

AvifNext == is_animated_avif

AvifSpec == AvifInit /\ [][AvifNext]_vars

\* The file exists and its first twelve bytes are there.
HasHeader == avif_file # None /\ avif_file.length >= 12

\* The size field, read big-endian.
BoxSize == avif_file.size[1] * 16777216 + avif_file.size[2] * 65536
             + avif_file.size[3] * 256 + avif_file.size[4]

\* The compatible brands of the ftyp box that are in the file: the whole
\* four-byte groups from byte 16 to the end of the box or of the file.
BrandsInBox ==
    {GroupAt(avif_file, g) :
       g \in {g \in 4..GroupsIn(avif_file.length) :
                /\ 4 * (g + 1) <= avif_file.length
                /\ 4 * (g + 1) <= BoxSize}}

\* C28: is_animated_avif always returns true or false; true for a file
\* whose first box is ftyp with major brand avis; false for major brand avif
\* with no avis among the compatible brands; false for a missing file, a file
\* shorter than 12 bytes and a file whose first box is not ftyp.
C28_AvifClassification ==
    avif_result # None =>
      /\ avif_result.some \in BOOLEAN
      /\ (HasHeader /\ avif_file.groups[1] = "ftyp"
            /\ avif_file.groups[2] = "avis") => avif_result.some
      /\ (HasHeader /\ avif_file.groups[1] = "ftyp"
            /\ avif_file.groups[2] = "avif" /\ "avis" \notin BrandsInBox)
           => ~avif_result.some
      /\ avif_file = None => ~avif_result.some
      /\ (avif_file # None /\ avif_file.length < 12) => ~avif_result.some
      /\ (HasHeader /\ avif_file.groups[1] # "ftyp") => ~avif_result.some

\* A static AVIF whose minor version bytes spell avis and whose one
\* compatible brand is avif was classified as not animated.
C28_Witness ==
    /\ avif_result = Some(FALSE)
    /\ HasHeader
    /\ avif_file.length = 20
    /\ BoxSize = 20
    /\ avif_file.groups = <<"ftyp", "avif", "avis", "avif">>

\* ================================= get_codec_support and the demotion guard
\* Threads that call get_codec_support and demote_broken_nvidia_decoders.
MaxThreads == 2
\* Calls a thread makes.
MaxThreadCalls == 2

Threads == 1..MaxThreads

nvidia_decoders ==
    <<"nvh264dec", "nvh265dec", "nvvp9dec", "nvav1dec", "nvmpegvideodec",
      "nvmpeg4videodec">>
vaapi_decoders ==
    <<"vaapih264dec", "vaapih265dec", "vaapivp8dec", "vaapivp9dec",
      "vaapiav1dec", "vaapimpeg2dec", "vah264dec", "vah265dec", "vavp8dec",
      "vavp9dec", "vaav1dec">>

\* The element factories a registry here may hold.
Elements == {"nvh264dec", "vah264dec", "vapostproc"}

\* CodecSupport::default()
CodecSupport_default ==
    [has_nvidia |-> FALSE, has_vaapi |-> FALSE, hw_decoders |-> <<>>]

\* The names of `list`, in its order, that ElementFactory::find finds.
Found(list, registry) == SelectSeq(list, LAMBDA d : d \in registry)

detect_codec_support_Result(registry, machine) ==
    IF ~machine.init_ok THEN CodecSupport_default
    ELSE [has_nvidia |-> Found(nvidia_decoders, registry) # <<>>,
          has_vaapi |-> Found(vaapi_decoders, registry) # <<>>,
          hw_decoders |-> Found(nvidia_decoders, registry)
                            \o Found(vaapi_decoders, registry)
                            \o Found(<<"vapostproc">>, registry)
                            \o Found(<<"cudadmabufupload">>, registry)]

\* What a caller of OnceLock::get_or_init or Once::call_once does on finding
\* the guard in `state`: run the closure, wait for the thread running it, or
\* go on.
OnceEnter_Unguarded(state) ==
    IF state = "complete" THEN "done" ELSE "run"

OnceEnter(state) ==
    CASE state = "incomplete" -> "run"
      [] state = "running" -> "wait"
      [] state = "complete" -> "done"

OnceInit ==
    /\ NoWallpaper
    /\ NoTake
    /\ NoCallback
    /\ NoGraphs
    /\ Quiet
    /\ NoPlanes
    /\ NoConversion
    /\ NoAvifFile
    /\ det_registry \in SUBSET Elements
    /\ det_machine \in [init_ok : BOOLEAN, cuda : BOOLEAN]
    /\ CODEC_SUPPORT = [state |-> "incomplete", value |-> None]
    /\ DEMOTED = "incomplete"
    /\ detections = 0
    /\ demotions = 0
    /\ demoted = {}
    /\ th_pc = [t \in Threads |-> "idle"]
    /\ th_seen = [t \in Threads |-> None]
    /\ th_calls = [t \in Threads |-> 0]

notOnceVars == <<notPureVars, planeVars, convertVars, avifVars, graphVars, sampleVars, tickVars, wallVars>>

\* get_codec_support(): CODEC_SUPPORT.get_or_init(detect_codec_support)
get_codec_support(t) ==
    /\ th_pc[t] = "idle"
    /\ th_calls[t] < MaxThreadCalls
    /\ th_calls' = [th_calls EXCEPT ![t] = @ + 1]
    /\ LET enter == OnceEnter(CODEC_SUPPORT.state)
       IN CASE enter = "done" ->
                 /\ th_seen' = [th_seen EXCEPT ![t] = CODEC_SUPPORT.value]
                 /\ UNCHANGED <<th_pc, CODEC_SUPPORT>>
            [] enter = "run" ->
                 /\ CODEC_SUPPORT' = [CODEC_SUPPORT EXCEPT !.state = "running"]
                 /\ th_pc' = [th_pc EXCEPT ![t] = "detect_codec_support"]
                 /\ UNCHANGED th_seen
            [] enter = "wait" ->
                 /\ th_pc' = [th_pc EXCEPT ![t] = "get_or_init"]
                 /\ UNCHANGED <<th_seen, CODEC_SUPPORT>>
    /\ UNCHANGED <<notOnceVars, det_registry, det_machine, DEMOTED, detections,
                   demotions, demoted>>

\* The closure of get_or_init ran: the cell holds its result.
detect_codec_support(t) ==
    /\ th_pc[t] = "detect_codec_support"
    /\ LET support == detect_codec_support_Result(det_registry, det_machine)
       IN /\ CODEC_SUPPORT' = [state |-> "complete", value |-> Some(support)]
          /\ th_seen' = [th_seen EXCEPT ![t] = Some(support)]
    /\ detections' = detections + 1
    /\ th_pc' = [th_pc EXCEPT ![t] = "idle"]
    /\ UNCHANGED <<notOnceVars, det_registry, det_machine, DEMOTED, demotions,
                   demoted, th_calls>>

\* A caller that waited for the initialising thread returns the value.
get_or_init_Return(t) ==
    /\ th_pc[t] = "get_or_init"
    /\ CODEC_SUPPORT.state = "complete"
    /\ th_seen' = [th_seen EXCEPT ![t] = CODEC_SUPPORT.value]
    /\ th_pc' = [th_pc EXCEPT ![t] = "idle"]
    /\ UNCHANGED <<notOnceVars, det_registry, det_machine, CODEC_SUPPORT,
                   DEMOTED, detections, demotions, demoted, th_calls>>

\* demote_broken_nvidia_decoders(): DEMOTED.call_once(...)
demote_broken_nvidia_decoders(t) ==
    /\ th_pc[t] = "idle"
    /\ th_calls[t] < MaxThreadCalls
    /\ th_calls' = [th_calls EXCEPT ![t] = @ + 1]
    /\ LET enter == OnceEnter(DEMOTED)
       IN CASE enter = "done" -> UNCHANGED <<th_pc, DEMOTED>>
            [] enter = "run" ->
                 /\ DEMOTED' = "running"
                 /\ th_pc' = [th_pc EXCEPT ![t] = "demote"]
            [] enter = "wait" ->
                 /\ th_pc' = [th_pc EXCEPT ![t] = "call_once"]
                 /\ UNCHANGED DEMOTED
    /\ UNCHANGED <<notOnceVars, det_registry, det_machine, CODEC_SUPPORT,
                   detections, demotions, demoted, th_seen>>

\* The body given to call_once: every NVIDIA decoder that is registered and
\* cannot be instantiated gets rank NONE.
demote_body(t) ==
    /\ th_pc[t] = "demote"
    /\ demotions' = demotions + 1
    /\ demoted' = IF det_machine.cuda THEN demoted
                  ELSE demoted \cup {nvidia_decoders[i] :
                                       i \in {i \in DOMAIN nvidia_decoders :
                                                nvidia_decoders[i] \in det_registry}}
    /\ DEMOTED' = "complete"
    /\ th_pc' = [th_pc EXCEPT ![t] = "idle"]
    /\ UNCHANGED <<notOnceVars, det_registry, det_machine, CODEC_SUPPORT,
                   detections, th_seen, th_calls>>

\* A caller that waited for the demoting thread returns.
call_once_Return(t) ==
    /\ th_pc[t] = "call_once"
    /\ DEMOTED = "complete"
    /\ th_pc' = [th_pc EXCEPT ![t] = "idle"]
    /\ UNCHANGED <<notOnceVars, det_registry, det_machine, CODEC_SUPPORT,
                   DEMOTED, detections, demotions, demoted, th_seen, th_calls>>

\* A plugin is loaded into the registry while the process runs.
plugin_loaded ==
    /\ \E e \in Elements \ det_registry : det_registry' = det_registry \cup {e}
    /\ UNCHANGED <<notOnceVars, det_machine, CODEC_SUPPORT, DEMOTED, detections,
                   demotions, demoted, th_pc, th_seen, th_calls>>

OnceNext ==
    \/ \E t \in Threads : get_codec_support(t)
    \/ \E t \in Threads : detect_codec_support(t)
    \/ \E t \in Threads : get_or_init_Return(t)
    \/ \E t \in Threads : demote_broken_nvidia_decoders(t)
    \/ \E t \in Threads : demote_body(t)
    \/ \E t \in Threads : call_once_Return(t)
    \/ plugin_loaded

OnceSpec == OnceInit /\ [][OnceNext]_vars

\* C29: under any interleaving of get_codec_support calls the detection runs
\* at most once, every caller gets the one snapshot of the cell, the snapshot
\* never changes once set, a failed gstreamer::init gives the empty snapshot,
\* and the body of demote_broken_nvidia_decoders runs at most once.
C29_ComputedOnce ==
    /\ [](/\ detections <= 1
          /\ demotions <= 1
          /\ \A t \in DOMAIN th_seen :
               th_seen[t] # None => th_seen[t] = CODEC_SUPPORT.value
          /\ (CODEC_SUPPORT.value # None /\ ~det_machine.init_ok) =>
               CODEC_SUPPORT.value =
                 Some([has_nvidia |-> FALSE, has_vaapi |-> FALSE,
                       hw_decoders |-> <<>>]))
    /\ [][CODEC_SUPPORT.value # None =>
            CODEC_SUPPORT'.value = CODEC_SUPPORT.value]_vars

\* Every thread got the snapshot, one of them after waiting for the other's
\* detection, the registry has a decoder loaded after the detection, and the
\* demotion ran.
C29_Witness ==
    /\ detections = 1
    /\ demotions = 1
    /\ \A t \in Threads : th_seen[t] # None /\ th_calls[t] = MaxThreadCalls
    /\ "nvh264dec" \in det_registry
    /\ ~CODEC_SUPPORT.value.some.has_nvidia
    /\ det_machine.init_ok

\* ============================= the decode graphs of VideoPlayer::new
\* VideoPlayer::new again, with test_pipeline taken step by step: each
\* graph made by parse::launch is followed from its creation to its drop.

\* A graph as parse::launch returns it.
Graph(kind, c) == [kind |-> kind, candidate |-> c, state |-> "Null"]

\* `let _ = p.set_state(gstreamer::State::Null);` on a graph in `state`.
set_state_Null_Skipped(state) == state

set_state_Null(state) == "Null"

\* The decode graph at the end of `graphs`, put into `state`.
InState(state) == [graphs EXCEPT ![Len(graphs)].state = state]

\* A candidate whose flags are absent is never handed to GStreamer.
GraphInit ==
    /\ NoWallpaper
    /\ NoTake
    /\ NoCallback
    /\ NoDetection
    /\ NoAvifFile
    /\ NoConversion
    /\ NoPlanes
    /\ QueueCreated
    /\ NoTimer
    /\ NoDelivery
    /\ gst_init_ok \in BOOLEAN
    /\ path_str \in {None, Some("path")}
    /\ has_vaapi \in BOOLEAN
    /\ has_nvdec \in BOOLEAN
    /\ has_cuda_dmabuf \in BOOLEAN
    /\ test_outcome \in [Tried -> TestOutcomes]
    /\ \A c \in Tried : ~Gate(c) => test_outcome[c] = LaunchError
    /\ new_pc = "init"
    /\ constructed = <<>>
    /\ tested = <<>>
    /\ pipeline_str = None
    /\ launched = "none"
    /\ new_result = "none"
    /\ graphs = <<>>
    /\ graph_pc = "idle"
    /\ released = <<>>

notGraphVars == <<frameQueueVars, producerVars, consumerVars, hist, playerVars,
                  timerVars, fdVars, planeVars, convertVars, avifVars, onceVars,
                  sampleVars, tickVars, wallVars>>

\* A try_*_pipeline function up to `match gstreamer::parse::launch(..)` in
\* test_pipeline: None when the flags are absent; `Err(_) => false` makes
\* no graph; Ok(p) makes one.
test_pipeline_launch ==
    \E c \in Tried :
      /\ new_pc = c
      /\ graph_pc = "idle"
      /\ IF ~Gate(c)
         THEN /\ new_pc' = Candidates[Order(c) + 1]
              /\ UNCHANGED <<constructed, tested, graphs, graph_pc>>
         ELSE /\ constructed' = Append(constructed, c)
              /\ tested' = Append(tested, c)
              /\ IF test_outcome[c].launch = "Err"
                 THEN /\ new_pc' = Candidates[Order(c) + 1]
                      /\ UNCHANGED <<graphs, graph_pc>>
                 ELSE /\ graphs' = Append(graphs, Graph("test", c))
                      /\ graph_pc' = "set_state"
                      /\ UNCHANGED new_pc
      /\ UNCHANGED <<notGraphVars, newEnvVars, pipeline_str, launched,
                     new_result, released>>

\* `let result = p.set_state(State::Paused); if result.is_err() { let _ =
\* p.set_state(State::Null); return false; }`
test_pipeline_set_state ==
    /\ graph_pc = "set_state"
    /\ IF test_outcome[new_pc].set_state = "Err"
       THEN /\ graphs' = InState(set_state_Null("Ready"))
            /\ graph_pc' = "return"
       ELSE /\ graphs' = InState("Ready")
            /\ graph_pc' = "state"
    /\ UNCHANGED <<notGraphVars, newVars, released>>

\* `let (res, state, _) = p.state(ClockTime::from_mseconds(500));`
test_pipeline_state ==
    /\ graph_pc = "state"
    /\ graphs' = InState(test_outcome[new_pc].state)
    /\ graph_pc' = "set_null"
    /\ UNCHANGED <<notGraphVars, newVars, released>>

\* `let _ = p.set_state(State::Null);` after the wait
test_pipeline_set_null ==
    /\ graph_pc = "set_null"
    /\ graphs' = InState(set_state_Null(graphs[Len(graphs)].state))
    /\ graph_pc' = "return"
    /\ UNCHANGED <<notGraphVars, newVars, released>>

\* The closure returns and `p` is dropped; the try_*_pipeline function
\* returns Some(pipeline) or None.
test_pipeline_return ==
    /\ graph_pc = "return"
    /\ released' = Append(released, graphs[Len(graphs)])
    /\ graphs' = SubSeq(graphs, 1, Len(graphs) - 1)
    /\ graph_pc' = "idle"
    /\ IF test_pipeline(test_outcome[new_pc])
       THEN /\ pipeline_str' = Some(new_pc)
            /\ new_pc' = "launch"
       ELSE /\ new_pc' = Candidates[Order(new_pc) + 1]
            /\ UNCHANGED pipeline_str
    /\ UNCHANGED <<notGraphVars, newEnvVars, constructed, tested, launched,
                   new_result>>

\* `let pipeline = gstreamer::parse::launch(&pipeline_str)?` ... `Ok(Self)`:
\* the real pipeline is instantiated and kept by the player.
new_instantiate ==
    /\ new_pc = "launch"
    /\ \E l \in {"ok", "err"} :
         /\ launched' = l
         /\ new_result' = new_Result(l)
         /\ graphs' = IF l = "ok"
                      THEN Append(graphs, Graph("real", pipeline_str.some))
                      ELSE graphs
    /\ new_pc' = "done"
    /\ UNCHANGED <<notGraphVars, newEnvVars, constructed, tested, pipeline_str,
                   graph_pc, released>>

GraphNext ==
    \/ new_init
    \/ new_path
    \/ test_pipeline_launch
    \/ test_pipeline_set_state
    \/ test_pipeline_state
    \/ test_pipeline_set_null
    \/ test_pipeline_return
    \/ software_fallback_pipeline
    \/ new_instantiate

GraphSpec == GraphInit /\ [][GraphNext]_vars

\* The candidates tested so far for which parse::launch made a graph.
Launched == {i \in 1..Len(tested) : test_outcome[tested[i]].launch = "Ok"}

\* C30: every test graph is in the Null state when it is released, whether
\* its test succeeded, failed to change state or timed out; it is released
\* before the next candidate is built and before the real pipeline is
\* instantiated; at most one decode graph exists at any time.
C30_TestTeardown ==
    /\ Len(graphs) <= 1
    /\ \A i \in 1..Len(released) : released[i].state = "Null"
    /\ graph_pc = "idle" =>
         /\ \A i \in 1..Len(graphs) : graphs[i].kind = "real"
         /\ Len(released) = Cardinality(Launched)
         /\ \A i \in 1..Len(released) :
              \E j \in Launched : tested[j] = released[i].candidate
    /\ \A i \in 1..Len(graphs) : graphs[i].kind = "real" => new_pc = "done"

\* The real pipeline exists after three test graphs were released: one that
\* failed to change state, one that timed out and one that reached PAUSED.
C30_Witness ==
    /\ new_pc = "done"
    /\ Len(graphs) = 1
    /\ graphs[1].kind = "real"
    /\ Len(released) = 3
    /\ test_outcome[released[1].candidate] = StateError
    /\ test_outcome[released[2].candidate] = Timeout
    /\ test_outcome[released[3].candidate] = Paused

\* ===================================================== the last-frame cache
\* C31: when try_pop has taken a frame, the last-frame cache holds a copy of
\* exactly that frame by the time the call returns; between calls the cache
\* holds the most recently popped frame; a get_render_frame call that found
\* the queue empty returns that frame and never an older one.
C31_CacheIsLastPopped ==
    /\ pc_c = "pop_return" => last_frame = c_frame
    /\ (pc_c = "idle" /\ Popped # <<>>) =>
         /\ last_frame # None
         /\ last_frame.pts_ns = LastPopped
    /\ (/\ pc_c = "idle"
        /\ c_op = "get_render_frame"
        /\ c_result # None) => c_result.pts_ns = LastPopped

\* After two frames were popped, a get_render_frame call on the empty queue
\* has returned the second one from the cache.
C31_Witness ==
    /\ pc_c = "idle"
    /\ c_op = "get_render_frame"
    /\ c_entry.count = 0
    /\ count = 0
    /\ stats_popped = 2
    /\ c_entry.popped = 2
    /\ stats_reused = c_entry.reused + 1
    /\ c_result # None
    /\ c_result.pts_ns = LastPopped

\* ================================== handle_sample and VideoFrameState
\* The sink callback taken step by step, with the render loop using the
\* queue and asking for the frame duration meanwhile.

\* What the appsink hands to the callback: pull_sample fails; the sample
\* has no buffer; no caps; caps VideoInfo cannot read; memory that is
\* neither exported as a DMA-BUF frame nor mappable; a sample that gives a
\* frame.
SampleKinds == {"pull_error", "no_buffer", "no_caps", "bad_caps", "unmappable",
                "frame"}

\* Whether handle_sample gets as far as `frame_queue.push(frame)`.
BuildsFrame_Always(sample) == TRUE

BuildsFrame(sample) == sample = "frame"

\* Every `return` of handle_sample is Ok(gstreamer::FlowSuccess::Ok).
handle_sample_Result(sample, pushed) == "Ok"

\* The push calls that have had their outcome so far: the frame stored,
\* given up on contention, or refused by a stopped queue.
ProducerEvents ==
    Cardinality({i \in 1..Len(hist) :
                   hist[i].ev \in {"stored", "contended", "refused"}})

\* What the producer side of the queue shows.
ProducerSide ==
    [next_pts |-> next_pts, pushed |-> stats_pushed, dropped |-> stats_dropped,
     write_pos |-> write_pos, events |-> ProducerEvents]

SinkInit ==
    /\ NoWallpaper
    /\ NoTake
    /\ NoGraphs
    /\ NoDetection
    /\ NoAvifFile
    /\ NoConversion
    /\ NoPlanes
    /\ new(PlayerQueueCapacity)
    /\ stream = [kind |-> "Raw", len |-> MaxData]
    /\ pc_p = "idle"
    /\ p_frame = None
    /\ p_count = 0
    /\ p_result = "none"
    /\ next_pts = 1
    /\ pc_c = "idle"
    /\ c_op = "none"
    /\ c_dest = 0
    /\ c_frame = None
    /\ c_result = None
    /\ c_entry = None
    /\ hist = <<>>
    /\ pipeline_state = "Playing"
    /\ callback = "none"
    /\ Constructed
    /\ NoTimer
    /\ NoDelivery
    /\ cb_sample = None
    /\ cb_pc = "idle"
    /\ cb_entry = None
    /\ flow = None
    /\ state_lock = "free"
    /\ state_frames = 0
    /\ dur_pc = "idle"

notSinkVars == <<newVars, timerVars, fdVars, planeVars, convertVars, avifVars,
                 onceVars, graphVars, tickVars, wallVars, frameQueueVars, consumerVars, hist,
                 pipeline_state, pc_p, p_frame, p_count, next_pts>>

\* The callback returns to the appsink.
sink_Return ==
    /\ flow' = Some(handle_sample_Result(cb_sample.some, p_result))
    /\ callback' = "none"
    /\ cb_pc' = "idle"

\* new_sample: the appsink calls handle_sample.
sink_new_sample ==
    /\ callback = "none"
    /\ pc_p = "idle"
    /\ next_pts <= MaxFrames
    /\ \E k \in SampleKinds : cb_sample' = Some(k)
    /\ callback' = "sample"
    /\ cb_pc' = "build"
    /\ cb_entry' = ProducerSide
    /\ flow' = None
    /\ p_result' = "none"
    /\ UNCHANGED <<notSinkVars, state_lock, state_frames, dur_pc>>

\* pull_sample, buffer(), caps(), VideoInfo::from_caps, create_dmabuf_frame
\* and map_readable: a frame is built, or the callback returns.
sink_build ==
    /\ cb_pc = "build"
    /\ IF BuildsFrame(cb_sample.some)
       THEN cb_pc' = "push" /\ UNCHANGED <<flow, callback>>
       ELSE sink_Return
    /\ UNCHANGED <<notSinkVars, p_result, cb_sample, cb_entry, state_lock,
                   state_frames, dur_pc>>

\* `frame_queue.push(frame)`
sink_push ==
    /\ cb_pc = "push"
    /\ pc_p = "idle" => p_result = "none"
    /\ Producer

\* `if !frame_queue.push(frame) { return Ok(..) }` and
\* `if let Ok(mut state) = frame_state.try_lock()`
sink_try_lock ==
    /\ cb_pc = "push"
    /\ pc_p = "idle"
    /\ p_result # "none"
    /\ IF p_result = "true" /\ state_lock = "free"
       THEN /\ state_lock' = "callback"
            /\ cb_pc' = "count"
            /\ UNCHANGED <<flow, callback>>
       ELSE /\ sink_Return
            /\ UNCHANGED state_lock
    /\ UNCHANGED <<notSinkVars, p_result, cb_sample, cb_entry, state_frames,
                   dur_pc>>

\* `state.frame_count += 1;` then the guard is dropped and Ok returned.
sink_count ==
    /\ cb_pc = "count"
    /\ state_frames' = state_frames + 1
    /\ state_lock' = "free"
    /\ sink_Return
    /\ UNCHANGED <<notSinkVars, p_result, cb_sample, cb_entry, dur_pc>>

\* The render loop uses the queue when it is not in frame_duration.
sink_render ==
    /\ dur_pc = "idle"
    /\ Consumer

\* The render loop calls current_duration -> VideoPlayer::frame_duration.
frame_duration ==
    /\ pc_c = "idle"
    /\ dur_pc = "idle"
    /\ dur_pc' = "lock"
    /\ UNCHANGED <<notSinkVars, p_result, callback, cb_sample, cb_pc, cb_entry,
                   flow, state_lock, state_frames>>

\* `self.frame_state.lock()`: returns when the mutex is free; the duration
\* is read and the guard dropped.
frame_duration_lock ==
    /\ dur_pc = "lock"
    /\ state_lock = "free"
    /\ dur_pc' = "idle"
    /\ UNCHANGED <<notSinkVars, p_result, callback, cb_sample, cb_pc, cb_entry,
                   flow, state_lock, state_frames>>

SinkNext ==
    \/ sink_new_sample
    \/ sink_build
    \/ sink_push
    \/ sink_try_lock
    \/ sink_count
    \/ sink_render
    \/ frame_duration
    \/ frame_duration_lock

SinkSpec == SinkInit /\ [][SinkNext]_vars

\* The callback is inside handle_sample and has a step to take.
CallbackCanStep ==
    ENABLED (sink_build \/ sink_push \/ sink_try_lock \/ sink_count)

\* C32: handle_sample returns Ok on every path and never a flow error; it
\* calls push at most once per sample; for a sample without buffer, without
\* caps or with memory that cannot be mapped it pushes nothing and leaves
\* what the producer writes in the queue (write position, pushed and dropped
\* counters, slots) as it was; it always has a next step, so it neither
\* blocks nor stops short of returning.
C32_CallbackReturnsOk ==
    /\ flow \in {None, Some("Ok")}
    /\ (callback = "none" /\ cb_sample # None) => flow = Some("Ok")
    /\ callback = "sample" => CallbackCanStep
    /\ cb_entry # None =>
         /\ next_pts - cb_entry.next_pts <= 1
         /\ ProducerEvents - cb_entry.events <= 1
         /\ cb_sample \in {Some("pull_error"), Some("no_buffer"),
                           Some("no_caps"), Some("bad_caps"),
                           Some("unmappable")}
              => ProducerSide = cb_entry

\* A sample whose memory could not be mapped was skipped while the render
\* loop held the ring lock, after an earlier sample had been queued.
C32_Witness ==
    /\ callback = "none"
    /\ cb_sample = Some("unmappable")
    /\ flow = Some("Ok")
    /\ stats_pushed = 1
    /\ frames_lock = "consumer"

\* C33 (as stated): inside a tick the render loop never waits for a lock
\* the callback can hold: a queue operation it has begun always has a next
\* step, and so has a frame_duration call.
C33_Original ==
    /\ pc_c # "idle" => ENABLED Consumer
    /\ dur_pc = "lock" => ENABLED frame_duration_lock


\* ------------------------------------------------ compatible brands of AVIF
\* The first box is ftyp and extends beyond the twelve header bytes.
FtypBeyondHeader ==
    /\ HasHeader
    /\ GroupAt(avif_file, 1) = "ftyp"
    /\ BoxSize > HeaderLen

\* The whole ftyp box is in the file.
BoxInFile == BoxSize <= avif_file.length

\* C34 as stated: for a file whose first box is ftyp and extends beyond its
\* first twelve bytes, is_animated_avif returns true whenever avis is among
\* the compatible brands, for every box size and every major brand.
C34_Original ==
    (/\ avif_result # None
     /\ FtypBeyondHeader
     /\ BoxInFile
     /\ "avis" \in BrandsInBox) => avif_result.some

\* C34: for a file whose first box is ftyp, lies wholly in the file and is
\* of 13 to 256 bytes, is_animated_avif returns true whenever avis is among
\* the compatible brands, whatever the major brand; the compatible brands of
\* a larger box, or of one cut short by the end of the file, are not
\* scanned, and the answer is then true only for major brand avis.
C34_BrandsScanned ==
    avif_result # None =>
      /\ (/\ FtypBeyondHeader
          /\ BoxInFile
          /\ BoxSize <= MaxFtypSize
          /\ "avis" \in BrandsInBox) => avif_result.some
      /\ (/\ FtypBeyondHeader
          /\ BoxSize > MaxFtypSize \/ ~BoxInFile
          /\ GroupAt(avif_file, 2) # "avis") => ~avif_result.some

\* An ftyp box of twenty bytes with major brand ftyp and the single
\* compatible brand avis was classified as animated.
C34_Witness ==
    /\ avif_result = Some(TRUE)
    /\ FtypBeyondHeader
    /\ BoxInFile
    /\ BoxSize = 20
    /\ avif_file.groups[2] = "ftyp"
    /\ avif_file.groups[4] = "avis"


\* -------------------------------------------------- ring positions and slots
\* Ring slots that hold the positions read_pos .. write_pos - 1.
Window == {p % capacity : p \in read_pos..(write_pos - 1)}

\* Ring slots that hold a frame.
Occupied == {i \in DOMAIN frames : frames[i] # None}

\* C35: whenever the ring lock is free, count = write_pos - read_pos and
\* slot i is occupied exactly when i = p mod capacity for a position p with
\* read_pos <= p < write_pos; try_pop never takes from an empty slot while
\* it saw len() > 0 under the lock, and push never stores into an occupied
\* slot.
C35_RingPositions ==
    /\ Quiescent =>
         /\ count = write_pos - read_pos
         /\ Occupied = Window
    /\ pc_c = "pop_take" => frames[read_idx] # None
    /\ pc_p = "push_write_slot" => frames[write_idx] = None

\* The ring has wrapped: after a drop and pops the lock is free and the
\* frames held sit in slots below the slot of read_pos.
C35_Witness ==
    /\ Quiescent
    /\ stats_dropped > 0
    /\ stats_popped > 0
    /\ count = 2
    /\ write_pos > capacity
    /\ read_pos % capacity > (write_pos - 1) % capacity


\* ------------------------------------------- frames removed by a timer tick
\* C36 (as stated): a frame-timer tick removes at most one frame from the
\* FrameQueue and the frame it removed is the frame it drew; with raw frames
\* the DMA-BUF attempt before the wl_shm draw removes none.
C36_Original ==
    /\ Len(taken) <= 1
    /\ (stream.kind = "Raw" /\ tick_pc = "draw") => taken = <<>>
    /\ \A l \in Layers :
         (tick_pc = "end" /\ taken # <<>> /\ attached[l] # <<>>)
           => attached[l][1].pts = taken[1]


\* ------------------------------------------- what a failed conversion leaves
\* C37 (as stated): a call of convert_to_vp9 that ran the conversion and
\* failed leaves no file at the cache path that a later call accepts as a
\* cache hit, so a cache hit that follows a call is a hit on the output of a
\* conversion that completed.
C37_Original ==
    \A i \in 1..Len(calls) :
      /\ (calls[i].converted /\ ~calls[i].ok) => ~CacheHit(calls[i].after)
      /\ (/\ i > 1
          /\ calls[i].converted
          /\ calls[i].ok
          /\ calls[i].route = "cache") => calls[i - 1].ok


\* ---------------------------------------------- a bus error ends the timer
\* The event loop runs a registered timer's callback when it is due and runs
\* it to its end: every step of a tick is taken once it can be.
TimerFair ==
    /\ TimerInit
    /\ [][TimerNext]_vars
    /\ WF_vars(frame_timer)
    /\ WF_vars(try_draw_video_frame_dmabuf)
    /\ WF_vars(draw_animated_frame)
    /\ WF_vars(frame_timer_Return)

\* An Error message is on the pipeline's bus.
ErrorPosted == \E i \in 1..Len(bus) : bus[i] = "Error"

\* C38 (as stated): once the pipeline has posted an error on its bus, the
\* wallpaper's frame timer is eventually dropped, whichever of the two bus
\* polls of a tick consumes the message.
C38_Original == ErrorPosted ~> (tick_pc = "dropped")


\* ===================================== Wallpaper: animation state and timers
\* One Wallpaper with one layer that is sized, scaled, has a pool and needs a
\* redraw.  Its source is a file or a directory of files; a file is its
\* extension and whether its content is an AVIF image sequence.  Colour
\* sources take no part in animation and are left out.

\* Frame timers ever inserted in the event loop.
MaxTokens == 3

VIDEO_EXTENSIONS ==
    {<<"m","p","4">>, <<"w","e","b","m">>, <<"m","k","v">>, <<"a","v","i">>,
     <<"m","o","v">>, <<"m","4","v">>, <<"o","g","v">>}

WallFiles ==
    {[ext |-> Some(<<"g","i","f">>), avis |-> FALSE],
     [ext |-> Some(<<"G","I","F">>), avis |-> FALSE],
     [ext |-> Some(<<"m","p","4">>), avis |-> FALSE],
     [ext |-> Some(<<"a","v","i","f">>), avis |-> TRUE],
     [ext |-> Some(<<"a","v","i","f">>), avis |-> FALSE],
     [ext |-> Some(<<"p","n","g">>), avis |-> FALSE]}

\* A directory path: no extension.
Directory == [ext |-> None, avis |-> FALSE]

\* entry.source: a file, or a directory of two files.
WallSources ==
    {[path |-> f, files |-> <<f>>] : f \in WallFiles}
      \cup {[path |-> Directory, files |-> <<f, g>>] : f, g \in WallFiles}

\* is_animated_file(path)
is_animated_file(path) ==
    IF path.ext = None THEN FALSE
    ELSE LET ext_lower == to_lowercase(path.ext.some) IN
         IF ext_lower = <<"g","i","f">> THEN TRUE
         ELSE IF ext_lower = <<"a","v","i","f">> THEN path.avis
         ELSE ext_lower \in VIDEO_EXTENSIONS

\* is_video_file(path)
is_video_file(path) ==
    IF path.ext = None THEN FALSE
    ELSE LET ext_lower == to_lowercase(path.ext.some) IN
         IF ext_lower = <<"a","v","i","f">> THEN FALSE
         ELSE ext_lower \in VIDEO_EXTENSIONS

\* AnimatedSourceType::from_path(path); path.avis is is_animated_avif(path).
from_path(path) ==
    IF path.avis THEN Some("Avif")
    ELSE IF is_video_file(path) THEN Some("Video")
    ELSE None

\* The fields of the Wallpaper that the animation functions read and write,
\* with the event loop's frame timers.
Animation ==
    [state |-> animation_state, timers |-> loop_timers, made |-> tokens_made,
     failed |-> anim_failed]

\* Wallpaper::register_frame_timer: the token of the state in place is
\* removed from the loop, a timer is inserted and its token stored.
register_frame_timer(w) ==
    IF w.state = None THEN w
    ELSE LET old == w.state.some.frame_timer_token
             kept == IF old # None THEN w.timers \ {old.some} ELSE w.timers
             token == w.made + 1
         IN [w EXCEPT !.state = Some([frame_timer_token |-> Some(token)]),
                      !.timers = kept \cup {token},
                      !.made = token]

\* Wallpaper::init_animation(path): false when from_path gives no source or
\* AnimatedPlayer::new fails (player_ok false); else the state is replaced
\* by AnimationState::new(player) and register_frame_timer runs.  The path
\* get_optimal_video_path returns for a video is a video.
init_animation(path, player_ok, w) ==
    IF from_path(path) = None \/ ~player_ok
    THEN [result |-> FALSE, w |-> [w EXCEPT !.failed = Some(path)]]
    ELSE [result |-> TRUE,
          w |-> register_frame_timer(
                  [w EXCEPT !.state = Some([frame_timer_token |-> None]),
                            !.failed = None])]

\* `is_animated_file(&path) && self.init_animation(&path)`
animated_and_init(path, player_ok, w) ==
    IF is_animated_file(path) THEN init_animation(path, player_ok, w)
    ELSE [result |-> FALSE, w |-> w]

\* Wallpaper::stop_animation
stop_animation(w) ==
    LET token == IF w.state = None THEN None
                 ELSE w.state.some.frame_timer_token
    IN [w EXCEPT !.state = None,
                 !.timers = IF token # None THEN w.timers \ {token.some}
                            ELSE w.timers]

\* Wallpaper::draw for the layer: nothing without a source, `continue` for
\* a path is_animated_file accepts, else the image is decoded, scaled and
\* attached.
draw_Result(src, decoded) ==
    IF src = None THEN "no_source"
    ELSE IF is_animated_file(src.some) THEN "skipped"
    ELSE IF decoded THEN "rendered"
    ELSE "undecoded"

Store(w) ==
    /\ animation_state' = w.state
    /\ loop_timers' = w.timers
    /\ tokens_made' = w.made
    /\ anim_failed' = w.failed

\* The orders the image queue may be built in (sorted, shuffled, resumed).
Orders(files) ==
    IF Len(files) = 1 THEN {files}
    ELSE {files, <<files[2], files[1]>>}

WallInit ==
    /\ NoTake
    /\ NoCallback
    /\ NoGraphs
    /\ NoDetection
    /\ NoAvifFile
    /\ NoConversion
    /\ NoPlanes
    /\ Quiet
    /\ entry_source \in WallSources
    /\ image_queue = <<>>
    /\ current_source = None
    /\ animation_state = None
    /\ loop_timers = {}
    /\ tokens_made = 0
    /\ anim_failed = None
    /\ draw_outcome = None

notWallVars == <<notPureVars, planeVars, convertVars, avifVars, onceVars,
                 graphVars, sampleVars, tickVars>>

\* Wallpaper::load_images for a Source::Path
load_images ==
    /\ tokens_made < MaxTokens
    /\ \E ok1 \in BOOLEAN, ok2 \in BOOLEAN, queue \in Orders(entry_source.files) :
         LET first == animated_and_init(entry_source.path, ok1, Animation)
             second == animated_and_init(Head(queue), ok2, first.w)
         IN IF first.result
            THEN /\ current_source' = Some(entry_source.path)
                 /\ Store(first.w)
                 /\ UNCHANGED image_queue
            ELSE /\ current_source' = Some(Head(queue))
                 /\ image_queue' = Append(Tail(queue), Head(queue))
                 /\ Store(second.w)
    /\ draw_outcome' = None
    /\ UNCHANGED <<notWallVars, entry_source>>

\* Wallpaper::init_animation called on its own.
Wallpaper_init_animation ==
    /\ tokens_made < MaxTokens
    /\ \E path \in WallFiles, ok \in BOOLEAN :
         Store(init_animation(path, ok, Animation).w)
    /\ draw_outcome' = None
    /\ UNCHANGED <<notWallVars, entry_source, image_queue, current_source>>

\* Wallpaper::stop_animation called on its own.
Wallpaper_stop_animation ==
    /\ animation_state # None
    /\ Store(stop_animation(Animation))
    /\ draw_outcome' = None
    /\ UNCHANGED <<notWallVars, entry_source, image_queue, current_source>>

\* The rotation timer set by register_timer fires with a path in the queue:
\* clear_image (stop_animation), then init_animation for an animated file,
\* then draw().
rotation_timer ==
    /\ image_queue # <<>>
    /\ tokens_made < MaxTokens
    /\ \E ok \in BOOLEAN, decoded \in BOOLEAN :
         LET next == Head(image_queue)
             a == animated_and_init(next, ok, stop_animation(Animation))
         IN /\ current_source' = Some(next)
            /\ image_queue' = Append(Tail(image_queue), next)
            /\ Store(a.w)
            /\ draw_outcome' = Some(draw_Result(Some(next), decoded))
    /\ UNCHANGED <<notWallVars, entry_source>>

\* Wallpaper::draw
draw ==
    /\ \E decoded \in BOOLEAN :
         draw_outcome' = Some(draw_Result(current_source, decoded))
    /\ UNCHANGED <<notWallVars, entry_source, image_queue, current_source,
                   animation_state, loop_timers, tokens_made, anim_failed>>

\* A frame timer's callback returns TimeoutAction::Drop: the wallpaper has
\* no animation state, or advance() returned false.
frame_timer_Drop ==
    /\ \E t \in loop_timers : loop_timers' = loop_timers \ {t}
    /\ draw_outcome' = None
    /\ UNCHANGED <<notWallVars, entry_source, image_queue, current_source,
                   animation_state, tokens_made, anim_failed>>

WallNext ==
    \/ load_images
    \/ Wallpaper_init_animation
    \/ Wallpaper_stop_animation
    \/ rotation_timer
    \/ draw
    \/ frame_timer_Drop

WallSpec == WallInit /\ [][WallNext]_vars

\* C39 (as stated): at most one frame-advance timer of the wallpaper is
\* registered at any time, and it is the timer of the animation state in
\* place: the timer of a state that was replaced or cleared has been removed.
C39_Original ==
    /\ Cardinality(loop_timers) <= 1
    /\ \A t \in loop_timers :
         /\ animation_state # None
         /\ animation_state.some.frame_timer_token = Some(t)

\* C40 (as stated): after init_animation failed for the current source, a
\* path is_animated_file accepts, a draw() renders that source and does not
\* skip it.
C40_Original ==
    (/\ draw_outcome # None
     /\ current_source # None
     /\ anim_failed = current_source
     /\ is_animated_file(current_source.some)
     /\ animation_state = None) => draw_outcome.some # "skipped"

====
